---- MODULE Spec2Model ----
(***************************************************************************)
(* IChing code: content encoder, Reed-Solomon layer over GF(2^6) and       *)
(* content decoder, modelled from the TypeScript sources.                  *)
(*                                                                         *)
(* Typed arrays are sequences: the element at index i of an array is the   *)
(* element i + 1 of the sequence.  Strings are sequences of UTF-16 code    *)
(* units.  A thrown Error is a record whose err field holds the message;   *)
(* err = "" means the call returned.                                       *)
(***************************************************************************)
EXTENDS Integers, Sequences, FiniteSets, TLC

VARIABLES pc, payload, ecLevel, encoded, received, decoded, input, output

vars == <<pc, payload, ecLevel, encoded, received, decoded, input, output>>

(***************************************************************************)
(* JavaScript integer operators on non-negative operands.                  *)
(***************************************************************************)
RECURSIVE BitXor(_, _)
BitXor(a, b) ==
    IF a = 0 THEN b
    ELSE IF b = 0 THEN a
    ELSE (((a % 2) + (b % 2)) % 2) + 2 * BitXor(a \div 2, b \div 2)

RECURSIVE BitAnd(_, _)
BitAnd(a, b) ==
    IF a = 0 \/ b = 0 THEN 0
    ELSE ((a % 2) * (b % 2)) + 2 * BitAnd(a \div 2, b \div 2)

\* x & (~1) for x >= 0: clears the lowest bit.
ClearLowBit(x) == x - (x % 2)

\* Math.ceil(a / b) for a >= 0, b > 0.
CeilDiv(a, b) == (a + b - 1) \div b

\* Math.round(Math.sqrt(n)) for an array length n.
RoundSqrt(n) ==
    IF n = 0 THEN 0
    ELSE CHOOSE s \in 1..n : s * s - s < n /\ n <= s * s + s

\* A typed array holding the values of f, every element evaluated.
Array(f) == f \o <<>>

Zeros(n) == Array([i \in 1..n |-> 0])

(***************************************************************************)
(* BinaryGF: GF(2^6) with primitive polynomial x^6 + x + 1.                *)
(***************************************************************************)
PRIMITIVE_DEGREE_6 == 67

GF_M == 6

size == 2 ^ GF_M

\* The constructor's table loop: i runs over 0 .. size - 1, x starts at 1.
RECURSIVE buildTables(_, _, _)
buildTables(i, x, t) ==
    IF i >= size \/ x >= size \/ Len(t.expTable) # size THEN t
    ELSE LET shifted == 2 * x
             next == IF BitAnd(shifted, size) # 0
                     THEN BitXor(shifted, PRIMITIVE_DEGREE_6)
                     ELSE shifted
         IN  buildTables(i + 1, next,
                 [expTable |-> [t.expTable EXCEPT ![i + 1] = x],
                  logTable |-> [t.logTable EXCEPT ![x + 1] = i]])

\* Both tables are arrays of `size` elements, zero-filled before the loop.
BINARY_GF_6 == buildTables(0, 1, [expTable |-> Zeros(size), logTable |-> Zeros(size)])

expTable == BINARY_GF_6.expTable

logTable == BINARY_GF_6.logTable

exp(x) == expTable[x + 1]

\* log(0) throws; callers never pass 0.
log(x) == logTable[x + 1]

\* x ^ y for field elements, tabulated.
XorTable ==
    Array([a \in 1..size |-> Array([b \in 1..size |-> BitXor(a - 1, b - 1)])])

add(x, y) == XorTable[x + 1][y + 1]

\* multiply with the sum of the logs reduced modulo size.
multiplyModSize(x, y) ==
    IF x = 0 \/ y = 0 THEN 0
    ELSE exp((log(x) + log(y)) % size)

multiply(x, y) ==
    IF x = 0 \/ y = 0 THEN 0
    ELSE exp((log(x) + log(y)) % (size - 1))

\* mulInverse reading expTable[size - logTable[x]].
mulInverseOffByOne(x) == exp(size - log(x))

\* mulInverse(0) throws; every caller that can hold 0 tests it first.
mulInverse(x) == exp(size - 1 - log(x))

divide(x, y) == multiply(x, mulInverse(y))

(***************************************************************************)
(* BinaryGFPoly: coefficients, highest degree first.                       *)
(***************************************************************************)
\* The constructor: strips leading zeros, keeping at least one coefficient.
\* The constructor keeping the array as given.
BinaryGFPolyUnstripped(coefficients) == coefficients

RECURSIVE BinaryGFPoly(_)
BinaryGFPoly(coefficients) ==
    IF Len(coefficients) > 1 /\ coefficients[1] = 0
    THEN BinaryGFPoly(Tail(coefficients))
    ELSE coefficients

getZeroPoly == BinaryGFPoly(<<0>>)

getOnePoly == BinaryGFPoly(<<1>>)

buildMonomial(degree, coefficient) ==
    BinaryGFPoly(Array([i \in 1..(degree + 1) |-> IF i = 1 THEN coefficient ELSE 0]))

getDegree(p) == Len(p) - 1

getCoefficient(p, degree) == p[Len(p) - degree]

isZero(p) == p[1] = 0

\* Horner's method, res starting at 0; res is a field element throughout.
RECURSIVE horner(_, _, _, _)
horner(p, x, i, res) ==
    IF res < size /\ i <= Len(p)
    THEN horner(p, x, i + 1, add(p[i], multiply(res, x)))
    ELSE res

evaluateAt(p, x) == horner(p, x, 1, 0)

addPoly(p, other) ==
    LET resLength == IF Len(p) > Len(other) THEN Len(p) ELSE Len(other)
        at(q, i) == IF i > resLength - Len(q) THEN q[i - (resLength - Len(q))] ELSE 0
    IN  BinaryGFPoly(Array([i \in 1..resLength |-> add(at(p, i), at(other, i))]))

\* Coefficient k of the product: the terms multiply(p[i], other[j]) with i + j = k,
\* added in the order of the loops (the pairs outside either array add nothing).
RECURSIVE convolve(_, _, _, _, _)
convolve(p, other, k, i, acc) ==
    IF acc < size /\ i <= Len(p) /\ i <= k
    THEN convolve(p, other, k, i + 1, add(acc, multiply(p[i], other[k + 1 - i])))
    ELSE acc

multiplyPoly(p, other) ==
    BinaryGFPoly(Array([k \in 1..(Len(p) + Len(other) - 1) |->
        convolve(p, other, k, IF k > Len(other) THEN k + 1 - Len(other) ELSE 1, 0)]))

multiplyScalar(p, x) == BinaryGFPoly(Array([i \in 1..Len(p) |-> multiply(p[i], x)]))

\* Synthetic division: one step per quotient coefficient.
RECURSIVE divideSteps(_, _, _)
divideSteps(res, other, i) ==
    IF i > Len(res) - (Len(other) - 1) THEN res
    ELSE LET coef == divide(res[i], other[1])
         IN  divideSteps(
                 Array([k \in 1..Len(res) |->
                     IF k = i THEN coef
                     ELSE IF k > i /\ k < i + Len(other)
                          THEN add(res[k], multiply(coef, other[k - i + 1]))
                          ELSE res[k]]),
                 other, i + 1)

\* The first cut coefficients of res are the quotient, the rest the remainder.
splitAt(res, cut) ==
    <<BinaryGFPoly(SubSeq(res, 1, cut)),
      IF cut = Len(res) THEN getZeroPoly
      ELSE BinaryGFPoly(SubSeq(res, cut + 1, Len(res)))>>

\* <<quotient, remainder>> for a non-zero divisor.
dividePoly(p, other) ==
    IF Len(p) < Len(other) THEN <<getZeroPoly, p>>
    ELSE splitAt(divideSteps(p, other, 1), Len(p) - (Len(other) - 1))

(***************************************************************************)
(* util/reedsolomon: the earlier revision of the field and of dividePoly.  *)
(* Its add and multiply compute what the core ones do (the sum of two logs *)
(* is reduced modulo size - 1 in both); its tables differ at logTable[1]   *)
(* and expTable[size - 1], which mulInverse reads.                         *)
(***************************************************************************)
\* The constructor's table loop: i runs over 0 .. size - 2, x starts at 1.
RECURSIVE utilBuildTables(_, _, _)
utilBuildTables(i, x, t) ==
    IF i >= size - 1 \/ x >= size \/ Len(t.expTable) # size THEN t
    ELSE LET shifted == 2 * x
             next == IF BitAnd(shifted, size) # 0
                     THEN BitXor(shifted, PRIMITIVE_DEGREE_6)
                     ELSE shifted
         IN  utilBuildTables(i + 1, next,
                 [expTable |-> [t.expTable EXCEPT ![i + 1] = x],
                  logTable |-> [t.logTable EXCEPT ![x + 1] = i]])

UTIL_BINARY_GF_6 ==
    utilBuildTables(0, 1, [expTable |-> Zeros(size), logTable |-> Zeros(size)])

utilMultiply(x, y) ==
    IF x = 0 \/ y = 0 THEN 0
    ELSE UTIL_BINARY_GF_6.expTable[((UTIL_BINARY_GF_6.logTable[x + 1] + UTIL_BINARY_GF_6.logTable[y + 1]) % (size - 1)) + 1]

\* mulInverse(0) throws; dividePoly passes the leading coefficient of a non-zero divisor.
utilMulInverse(x) == UTIL_BINARY_GF_6.expTable[(size - 1 - UTIL_BINARY_GF_6.logTable[x + 1]) + 1]

utilDivide(x, y) == utilMultiply(x, utilMulInverse(y))

\* The loop of dividePoly, i counted from 0 as in the code: res[i] is divided by the
\* normalizer, and a non-zero coef is then multiplied into res[i .. i + other.length - 1],
\* res[i] included (j starts at 0).
RECURSIVE utilDivideSteps(_, _, _)
utilDivideSteps(res, other, i) ==
    IF i >= Len(res) - Len(other) - 1 THEN res
    ELSE LET coef == utilDivide(res[i + 1], other[1])
         IN  utilDivideSteps(
                 Array([k \in 1..Len(res) |->
                     IF k = i + 1
                     THEN IF coef = 0 THEN coef
                          ELSE add(coef, utilMultiply(coef, other[1]))
                     ELSE IF coef # 0 /\ k > i + 1 /\ k <= i + Len(other)
                          THEN add(res[k], utilMultiply(coef, other[k - i]))
                          ELSE res[k]]),
                 other, i + 1)

\* new BinaryGFPoly(...) as an outcome: the constructor throws on an empty array.
construct(coefficients) ==
    IF Len(coefficients) = 0 THEN [err |-> "Polynomial is empty!", polys |-> <<>>]
    ELSE [err |-> "", polys |-> <<BinaryGFPoly(coefficients)>>]

\* res.slice(0, -remainderLength) and res.slice(-remainderLength): -0 is 0, so a
\* remainderLength of 0 gives the empty slice and the whole array.
utilSlices(res, remainderLength) ==
    LET cut == IF remainderLength = 0 \/ remainderLength > Len(res) THEN 0
               ELSE Len(res) - remainderLength
    IN  <<SubSeq(res, 1, cut), SubSeq(res, cut + 1, Len(res))>>

\* dividePoly with the remainder returned as the slice, not as a BinaryGFPoly.
utilDividePolyRawRemainder(p, other) ==
    IF isZero(other) THEN [err |-> "Division by zero!", polys |-> <<>>]
    ELSE LET slices == utilSlices(utilDivideSteps(p, other, 0), Len(other) - 1)
         IN  IF Len(slices[1]) = 0 THEN construct(slices[1])
             ELSE [err |-> "", polys |-> <<BinaryGFPoly(slices[1]), slices[2]>>]

\* polys = <<quotient, remainder>>; the quotient is constructed first.
utilDividePoly(p, other) ==
    IF isZero(other) THEN [err |-> "Division by zero!", polys |-> <<>>]
    ELSE LET slices == utilSlices(utilDivideSteps(p, other, 0), Len(other) - 1)
         IN  IF Len(slices[1]) = 0 THEN construct(slices[1])
             ELSE [err |-> "", polys |-> <<BinaryGFPoly(slices[1]), BinaryGFPoly(slices[2])>>]

(***************************************************************************)
(* ReedSolomonEncoder.                                                     *)
(***************************************************************************)
\* getGenerator with the factors (x - a^i) taken for i: 1 -> d.
RECURSIVE getGeneratorShifted(_, _)
getGeneratorShifted(generators, degree) ==
    IF Len(generators) > degree THEN generators
    ELSE LET d == Len(generators)
         IN  getGeneratorShifted(
                 Append(generators,
                     multiplyPoly(generators[d], BinaryGFPoly(<<1, exp(d)>>))),
                 degree)

\* The cache after a request for `degree`: generators[d] is element d + 1.
RECURSIVE getGenerator(_, _)
getGenerator(generators, degree) ==
    IF Len(generators) > degree THEN generators
    ELSE LET d == Len(generators)
         IN  getGenerator(
                 Append(generators,
                     multiplyPoly(generators[d], BinaryGFPoly(<<1, exp(d - 1)>>))),
                 degree)

\* encodedData.set(source, offset)
setAt(target, source, offset) ==
    Array([i \in 1..Len(target) |->
        IF i > offset /\ i <= offset + Len(source) THEN source[i - offset] ELSE target[i]])

\* encode writing the remainder right after the data symbols.
ReedSolomonEncodeLeftAligned(data, ecSymbols) ==
    IF Len(data) = 0 THEN [err |-> "No data symbols!", data |-> <<>>]
    ELSE IF ecSymbols = 0 THEN [err |-> "", data |-> data]
    ELSE LET generator == getGenerator(<<getOnePoly>>, ecSymbols)[ecSymbols + 1]
             encodedData == data \o Zeros(ecSymbols)
             encodedDataPoly == BinaryGFPoly(encodedData)
             remainderCoefficients == dividePoly(encodedDataPoly, generator)[2]
         IN  [err |-> "",
              data |-> setAt(encodedData, remainderCoefficients, Len(data))]

ReedSolomonEncode(data, ecSymbols) ==
    IF Len(data) = 0 THEN [err |-> "No data symbols!", data |-> <<>>]
    ELSE IF ecSymbols = 0 THEN [err |-> "", data |-> data]
    ELSE LET generator == getGenerator(<<getOnePoly>>, ecSymbols)[ecSymbols + 1]
             encodedData == data \o Zeros(ecSymbols)
             encodedDataPoly == BinaryGFPoly(encodedData)
             remainderCoefficients == dividePoly(encodedDataPoly, generator)[2]
         IN  [err |-> "",
              data |-> setAt(encodedData, remainderCoefficients,
                             Len(encodedData) - Len(remainderCoefficients))]

(***************************************************************************)
(* ReedSolomonDecoder.                                                     *)
(***************************************************************************)
computeSyndromes(poly, ecSymbols) ==
    BinaryGFPoly(Array([j \in 1..ecSymbols |-> evaluateAt(poly, exp(ecSymbols - j))]))

\* One iteration of the loop for the quotient Q: the next <<R2, R1, A2, A1>>.
euclidStep(R2, R1, A2, A1, Q) ==
    <<R1, addPoly(R2, multiplyPoly(Q, R1)), A1, addPoly(A2, multiplyPoly(Q, A1))>>

\* The extended-Euclid loop on e = <<R2, R1, A2, A1>>.
RECURSIVE euclidLoop(_, _)
euclidLoop(e, ecSymbols) ==
    IF 2 * getDegree(e[2]) >= ecSymbols
    THEN euclidLoop(euclidStep(e[1], e[2], e[3], e[4], dividePoly(e[1], e[2])[1]),
                    ecSymbols)
    ELSE e

\* The division of A1 and R1 by the constant term of A1; mulInverse(0) throws.
normalise(A1, R1, constant) ==
    IF constant = 0
    THEN [err |-> "0 has no multiplicative inverse!",
          errorLocator |-> <<>>, errorEvaluator |-> <<>>]
    ELSE [err |-> "",
          errorLocator |-> multiplyScalar(A1, mulInverse(constant)),
          errorEvaluator |-> multiplyScalar(R1, mulInverse(constant))]

lastOf(e) == normalise(e[4], e[2], getCoefficient(e[4], 0))

computeLocatorAndEvaluator(syndromes, ecSymbols) ==
    lastOf(euclidLoop(<<buildMonomial(ecSymbols, 1), syndromes, getZeroPoly, getOnePoly>>,
                      ecSymbols))

\* The exhaustive root search: i from 1 while i < size and e < errorCount.
RECURSIVE searchRoots(_, _, _)
searchRoots(errorLocator, i, locations) ==
    IF i < size /\ Len(locations) < getDegree(errorLocator)
    THEN searchRoots(errorLocator, i + 1,
             IF evaluateAt(errorLocator, i) = 0
             THEN Append(locations, mulInverse(i))
             ELSE locations)
    ELSE locations

\* The check after the search: as many roots as the locator's degree.
checkRoots(errorLocator, locations) ==
    IF Len(locations) # getDegree(errorLocator)
    THEN [err |-> "Error locator degree does not match number of roots!",
          locations |-> <<>>]
    ELSE [err |-> "", locations |-> locations]

computeErrorLocations(errorLocator) ==
    checkRoots(errorLocator, searchRoots(errorLocator, 1, <<>>))

RECURSIVE denominatorAt(_, _, _, _)
denominatorAt(errorLocations, i, j, denominator) ==
    IF j > Len(errorLocations) \/ denominator >= size THEN denominator
    ELSE denominatorAt(errorLocations, i, j + 1,
             IF i = j THEN denominator
             ELSE multiply(denominator,
                      add(1, multiply(mulInverse(errorLocations[i]), errorLocations[j]))))

\* The roots found are distinct, so no denominator is 0.
computeErrorMagnitudes(errorEvaluator, errorLocations) ==
    Array([i \in 1..Len(errorLocations) |->
        multiply(evaluateAt(errorEvaluator, mulInverse(errorLocations[i])),
                 mulInverse(denominatorAt(errorLocations, i, 1, 1)))])

\* The correction loop of decode.
RECURSIVE applyCorrections(_, _, _, _)
applyCorrections(corrected, errorLocations, errorMagnitudes, i) ==
    IF i > Len(errorLocations) THEN [err |-> "", data |-> corrected]
    ELSE LET position == Len(corrected) - 1 - log(errorLocations[i])
         IN  IF position < 0 THEN [err |-> "Invalid error location", data |-> <<>>]
             ELSE applyCorrections(
                      [corrected EXCEPT ![position + 1] =
                          add(corrected[position + 1], errorMagnitudes[i])],
                      errorLocations, errorMagnitudes, i + 1)

\* decode, from the error locations on.
decodeAt(rcv, errorEvaluator, loc) ==
    IF loc.err # "" THEN [err |-> loc.err, data |-> <<>>]
    ELSE applyCorrections(rcv, loc.locations,
             computeErrorMagnitudes(errorEvaluator, loc.locations), 1)

\* decode, from the error locator and evaluator on.
decodeWith(rcv, le) ==
    IF le.err # "" THEN [err |-> le.err, data |-> <<>>]
    ELSE decodeAt(rcv, le.errorEvaluator, computeErrorLocations(le.errorLocator))

\* decode, from the syndromes on: a zero syndrome polynomial means no errors.
decodeFrom(rcv, syndromes, ecSymbols) ==
    IF isZero(syndromes) THEN [err |-> "", data |-> rcv]
    ELSE decodeWith(rcv, computeLocatorAndEvaluator(syndromes, ecSymbols))

ReedSolomonDecode(rcv, ecSymbols) ==
    decodeFrom(rcv, computeSyndromes(BinaryGFPoly(rcv), ecSymbols), ecSymbols)

(***************************************************************************)
(* Encoder.                                                                *)
(***************************************************************************)
VERSION == 1

MAX_SIZE == 64

OFFSET == 2

SYMBOLS_PER_ERROR == 2

\* Error correction levels in hundredths: EC_NONE, EC_LOW, EC_MEDIUM, EC_HIGH.
EC_NONE == 0

EC_LOW == 5

EC_MEDIUM == 15

EC_HIGH == 25

\* Indexed by UTF-16 code unit: the entry of code unit c is element c + 1.
MAPPING_TABLE ==
    << -1, -1, -1, -1, -1, -1, -1, -1, -1, -1, -1, -1, -1, -1, -1, -1,
       -1, -1, -1, -1, -1, -1, -1, -1, -1, -1, -1, -1, -1, -1, -1, -1,
       -1, -1, -1, -1, -1, -1, -1, -1, -1, -1, -1, -1, -1, -1, -1, -1,
       26, 27, 28, 29, 30, 31, 32, 33, 34, 35, -1, -1, -1, -1, -1, -1,
       -1, 0, 1, 2, 3, 4, 5, 6, 7, 8, 9, 10, 11, 12, 13, 14,
       15, 16, 17, 18, 19, 20, 21, 22, 23, 24, 25, -1, -1, -1, -1, -1,
       -1, 0, 1, 2, 3, 4, 5, 6, 7, 8, 9, 10, 11, 12, 13, 14,
       15, 16, 17, 18, 19, 20, 21, 22, 23, 24, 25, -1, -1, -1, -1, -1 >>

\* The alphabet string the decoder reads, as code units:
\* A-Z 0-9 ! @ # $ % ^ & * ( ) { } [ ] _ + - = . , : ; / ? < > " space
ALPHABET ==
    << 65, 66, 67, 68, 69, 70, 71, 72, 73, 74, 75, 76, 77, 78, 79, 80,
       81, 82, 83, 84, 85, 86, 87, 88, 89, 90, 48, 49, 50, 51, 52, 53,
       54, 55, 56, 57, 33, 64, 35, 36, 37, 94, 38, 42, 40, 41, 123, 125,
       91, 93, 95, 43, 45, 61, 46, 44, 58, 59, 47, 63, 60, 62, 34, 32 >>

\* Math.ceil(length * ecLevel) * SYMBOLS_PER_ERROR, ecLevel in hundredths.
requiredEcSymbols(length, level) == CeilDiv(length * level, 100) * SYMBOLS_PER_ERROR

\* The while loop with the comparison sideLength * sideLength <= minimumSize.
RECURSIVE sideLengthFromInclusive(_, _)
sideLengthFromInclusive(sideLength, minimumSize) ==
    IF sideLength * sideLength <= minimumSize
    THEN sideLengthFromInclusive(sideLength + 1, minimumSize)
    ELSE sideLength

\* The while loop that grows sideLength from 1.
RECURSIVE sideLengthFrom(_, _)
sideLengthFrom(sideLength, minimumSize) ==
    IF sideLength * sideLength < minimumSize
    THEN sideLengthFrom(sideLength + 1, minimumSize)
    ELSE sideLength

\* The parity count left as requested, the square not filled.
unfittedEcSymbols(ecSymbols, trueSize, minimumSize) == ecSymbols

\* ecSymbols += (trueSize - minimumSize) & (~1)
fittedEcSymbols(ecSymbols, trueSize, minimumSize) ==
    ecSymbols + ClearLowBit(trueSize - minimumSize)

mappedChar(charCode) ==
    IF charCode < Len(MAPPING_TABLE) THEN MAPPING_TABLE[charCode + 1] ELSE -1

\* The throws of encode with the range of ecLevel tested before the empty payload.
encodeRejectionRangeFirst(content, level) ==
    IF level < 0 \/ level > 100
    THEN "Error correction percentage must be a value between 0 - 1!"
    ELSE IF Len(content) = 0 THEN "Empty payload!"
    ELSE IF OFFSET + Len(content) + requiredEcSymbols(Len(content), level) > MAX_SIZE
         THEN "Payload and error correction level combination is too big!"
    ELSE IF \E i \in 1..Len(content) : mappedChar(content[i]) = -1
         THEN "Invalid character in payload!"
    ELSE ""

\* The throws of encode, in the order the code reaches them; "" when none.
encodeRejection(content, level) ==
    IF Len(content) = 0 THEN "Empty payload!"
    ELSE IF level < 0 \/ level > 100
         THEN "Error correction percentage must be a value between 0 - 1!"
    ELSE IF OFFSET + Len(content) + requiredEcSymbols(Len(content), level) > MAX_SIZE
         THEN "Payload and error correction level combination is too big!"
    ELSE IF \E i \in 1..Len(content) : mappedChar(content[i]) = -1
         THEN "Invalid character in payload!"
    ELSE ""

Rejected(message) ==
    [err |-> message, version |-> 0, size |-> 0, data |-> <<>>, imageData |-> "none"]

EncoderEncode(content, level) ==
    IF encodeRejection(content, level) # ""
    THEN Rejected(encodeRejection(content, level))
    ELSE LET minimumSize == OFFSET + Len(content) + requiredEcSymbols(Len(content), level)
             sideLength == sideLengthFrom(1, minimumSize)
             trueSize == sideLength * sideLength
             ecSymbols == fittedEcSymbols(requiredEcSymbols(Len(content), level),
                                          trueSize, minimumSize)
             data == Array([i \in 1..(trueSize - ecSymbols) |->
                         IF i = 1 THEN VERSION
                         ELSE IF i = 2 THEN Len(content)
                         ELSE IF i <= OFFSET + Len(content)
                              THEN mappedChar(content[i - OFFSET])
                              ELSE 0])
             rs == ReedSolomonEncode(data, ecSymbols)
         IN  IF rs.err # ""
             THEN Rejected("Reed-Solomon encoding failed: 'No data symbols!'!")
             ELSE [err |-> "", version |-> data[1], size |-> sideLength,
                   data |-> rs.data, imageData |-> "null"]

(***************************************************************************)
(* Decoder.                                                                *)
(***************************************************************************)
Invalid(message) ==
    [err |-> message, version |-> 0, size |-> 0, data |-> <<>>, patterns |-> "none"]

\* The Reed-Solomon decoder's error passed on as it is, without the catch.
rethrownRaw(rs) == rs

\* The catch throwing the message of the entry checks.
rethrownLower(rs) ==
    IF rs.err # "" THEN [err |-> "Invalid IChing code!", data |-> <<>>] ELSE rs

\* The catch around the Reed-Solomon decoder: any error it throws becomes one message.
rethrown(rs) ==
    IF rs.err # "" THEN [err |-> "Invalid IChing Code!", data |-> <<>>] ELSE rs

\* The Reed-Solomon step of decode; without parity the array is copied.
correct(rcv, ecSymbols) ==
    IF ecSymbols # 0 THEN rethrown(ReedSolomonDecode(rcv, ecSymbols))
    ELSE [err |-> "", data |-> rcv]

\* The comparison of the metadata symbols after correction.
metadataAltered(corrected, rcv) == \E i \in 1..OFFSET : corrected[i] # rcv[i]

\* decode after its two entry checks, from the corrected array on.
decodeCorrected(rcv, side, dataLength, corrected) ==
    IF corrected.err # ""
    THEN Invalid(corrected.err)
    ELSE IF metadataAltered(corrected.data, rcv)
    THEN Invalid("Invalid IChing Code!")
    ELSE IF \E i \in 1..dataLength : corrected.data[OFFSET + i] >= Len(ALPHABET)
    THEN Invalid("Invalid IChing Code!")
    ELSE [err |-> "", version |-> rcv[1], size |-> side,
          data |-> Array([i \in 1..dataLength |-> ALPHABET[corrected.data[OFFSET + i] + 1]]),
          patterns |-> "null"]

\* The first entry check without the comparison of the version.
invalidHeaderSizeOnly(rcv, side) == side * side # Len(rcv)

\* The first entry check: the version symbol and the square length.  received[0] of
\* an empty array is undefined, which is not VERSION.
invalidHeader(rcv, side) ==
    Len(rcv) = 0 \/ rcv[1] # VERSION \/ side * side # Len(rcv)

\* decode, from the side length and the payload length read from the array on.
decodeSized(rcv, side, dataLength) ==
    IF invalidHeader(rcv, side)
    THEN Invalid("Invalid IChing code!")
    ELSE IF Len(rcv) < OFFSET
    THEN \* received[1] is undefined: undefined === 0 and NaN > length are both false,
         \* ecSymbols is NaN & ~1 = 0, and no loop over the payload runs.
         [err |-> "", version |-> rcv[1], size |-> side, data |-> <<>>, patterns |-> "null"]
    ELSE IF dataLength = 0 \/ dataLength + OFFSET > Len(rcv)
    THEN Invalid("Invalid IChing code!")
    ELSE decodeCorrected(rcv, side, dataLength,
             correct(rcv, ClearLowBit(Len(rcv) - OFFSET - dataLength)))

DecoderDecode(rcv) == decodeSized(rcv, RoundSqrt(Len(rcv)), rcv[2])

(***************************************************************************)
(* Inputs.                                                                 *)
(***************************************************************************)
MaxPayloadLength == 63

MaxCharCode == 128

MaxErrors == 2

MaxErrorValue == 1

\* String.prototype.toUpperCase on code units below 128.
toUpperCase(content) ==
    Array([i \in 1..Len(content) |->
        IF content[i] >= 97 /\ content[i] <= 122 THEN content[i] - 32 ELSE content[i]])

HELLO == <<72, 69, 76, 76, 79>>

\* "validpayload", the payload of the encoder tests.
validPayload ==
    <<118, 97, 108, 105, 100, 112, 97, 121, 108, 111, 97, 100>>

\* "this0payload1is2too3long4for5high6error7correction8level9"
longPayload ==
    <<116, 104, 105, 115, 48, 112, 97, 121, 108, 111, 97, 100, 49, 105, 115, 50, 116,
      111, 111, 51, 108, 111, 110, 103, 52, 102, 111, 114, 53, 104, 105, 103, 104, 54,
      101, 114, 114, 111, 114, 55, 99, 111, 114, 114, 101, 99, 116, 105, 111, 110, 56,
      108, 101, 118, 101, 108, 57>>

\* "helloworldtestx12", the message of the decoder tests.
msg == <<104, 101, 108, 108, 111, 119, 111, 114, 108, 100, 116, 101, 115, 116, 120, 49, 50>>

WOD == <<87, 79, 68>>

\* "spaces are not supported"
invalidPayload ==
    <<115, 112, 97, 99, 101, 115, 32, 97, 114, 101, 32, 110, 111, 116, 32, 115, 117,
      112, 112, 111, 114, 116, 101, 100>>

\* The first n characters of w repeated.
Cycle(w, n) == Array([i \in 1..n |-> w[((i - 1) % Len(w)) + 1]])

Payloads ==
    { Cycle(w, n) : w \in {msg, invalidPayload}, n \in 0..MaxPayloadLength }
        \cup { HELLO, WOD, validPayload, longPayload }
        \cup { <<c>> : c \in 0..MaxCharCode }

\* In hundredths: -0.1, the four presets, 1 and 1.1.
EcLevels == {-10, EC_NONE, EC_LOW, EC_MEDIUM, EC_HIGH, 100, 110}

\* The inputs whose codewords the channel alters: parity 2, 4 and 8.
ChannelInputs == {<<HELLO, EC_NONE>>, <<WOD, EC_NONE>>, <<HELLO, EC_HIGH>>}

\* The indices (from 1) at which the received array differs from the encoder's.
Changed == {i \in 1..Len(received) : received[i] # encoded.data[i]}

NoResult == [err |-> "none"]

(***************************************************************************)
(* The state machine: one encode, a channel that alters symbols, one       *)
(* decode.                                                                 *)
(***************************************************************************)
Init ==
    /\ pc = "start"
    /\ payload = <<>>
    /\ ecLevel = 0
    /\ encoded = NoResult
    /\ received = <<>>
    /\ decoded = NoResult
    /\ input = NoResult
    /\ output = NoResult

Encode ==
    /\ pc = "start"
    /\ \E content \in Payloads, level \in EcLevels :
        LET result == EncoderEncode(content, level)
        IN  /\ payload' = content
            /\ ecLevel' = level
            /\ encoded' = result
            /\ received' = result.data
            /\ pc' = IF result.err = "" THEN "encoded" ELSE "rejected"
    /\ UNCHANGED <<decoded, input, output>>

\* The channel replaces one symbol that still has its encoded value.
Corrupt ==
    /\ pc = "encoded"
    /\ <<payload, ecLevel>> \in ChannelInputs
    /\ Cardinality(Changed) < MaxErrors
    /\ \E position \in 1..Len(received), value \in 0..MaxErrorValue :
        /\ received[position] = encoded.data[position]
        /\ value # received[position]
        /\ received' = [received EXCEPT ![position] = value]
    /\ UNCHANGED <<pc, payload, ecLevel, encoded, decoded, input, output>>

\* The first e symbols after the metadata are overwritten with zero.
ZeroFill ==
    /\ pc = "encoded"
    /\ <<payload, ecLevel>> \in ChannelInputs
    /\ received = encoded.data
    /\ \E e \in 1..(Len(received) - OFFSET) :
        received' = Array([i \in 1..Len(received) |->
                        IF i > OFFSET /\ i <= OFFSET + e THEN 0 ELSE received[i]])
    /\ UNCHANGED <<pc, payload, ecLevel, encoded, decoded, input, output>>

Decode ==
    /\ pc = "encoded"
    /\ decoded' = DecoderDecode(received)
    /\ pc' = "decoded"
    /\ UNCHANGED <<payload, ecLevel, encoded, received, input, output>>

Next == Encode \/ Corrupt \/ ZeroFill \/ Decode

Spec == Init /\ [][Next]_vars

(***************************************************************************)
(* The field on its own: one call of each operation of BinaryGF on a pair   *)
(* of elements.                                                            *)
(***************************************************************************)
\* The state of the encode / decode variables while another component runs.
Idle ==
    /\ payload = <<>>
    /\ ecLevel = 0
    /\ encoded = NoResult
    /\ received = <<>>
    /\ decoded = NoResult

FieldInit ==
    /\ pc = "field"
    /\ Idle
    /\ input \in {[x |-> x, y |-> y] : x \in 0..(size - 1), y \in 0..(size - 1)}
    /\ output = NoResult

\* exp, log, add, multiply, mulInverse and divide; a throw is recorded as its message.
FieldArithmetic ==
    /\ pc = "field"
    /\ output' =
           [exp |-> exp(input.x),
            log |-> IF input.x = 0 THEN "Log(0) is not defined in Galois Fields!"
                    ELSE log(input.x),
            sum |-> add(input.x, input.y),
            product |-> multiply(input.x, input.y),
            inverse |-> IF input.x = 0 THEN "0 has no multiplicative inverse!"
                        ELSE mulInverse(input.x),
            quotient |-> IF input.y = 0 THEN "Division by zero!"
                         ELSE divide(input.x, input.y)]
    /\ pc' = "fieldDone"
    /\ UNCHANGED <<payload, ecLevel, encoded, received, decoded, input>>

FieldSpec == FieldInit /\ [][FieldArithmetic]_vars

(***************************************************************************)
(* Field polynomials on their own: the constructor and one call of each    *)
(* operation of util/reedsolomon/BinaryGFPoly on a pair of polynomials.    *)
(***************************************************************************)
MaxPolyLength == 4

MaxDivisorLength == 3

MaxCoefficient == 2

\* 0, 1 (whose inverse the two revisions of the field compute differently) and one more.
Coefficients == {0, 1, MaxCoefficient}

ArraysUpTo(n) == UNION {{Array(f) : f \in [1..k -> Coefficients]} : k \in 0..n}

PolyInit ==
    /\ pc = "poly"
    /\ Idle
    /\ input \in {[a |-> a, b |-> b] :
                     a \in ArraysUpTo(MaxPolyLength), b \in ArraysUpTo(MaxDivisorLength)}
    /\ output = NoResult

Returned(op, outcome) ==
    /\ output' = [op |-> op, err |-> outcome.err, polys |-> outcome.polys]
    /\ pc' = "polyDone"
    /\ UNCHANGED <<payload, ecLevel, encoded, received, decoded, input>>

Construct ==
    /\ pc = "poly"
    /\ Returned("new", construct(input.a))

\* The operands of the binary operations are polynomials: constructed, not thrown.
Operands == pc = "poly" /\ Len(input.a) > 0 /\ Len(input.b) > 0

PolyAdd ==
    /\ Operands
    /\ Returned("add",
           [err |-> "", polys |-> <<addPoly(BinaryGFPoly(input.a), BinaryGFPoly(input.b))>>])

PolyMultiplyPoly ==
    /\ Operands
    /\ Returned("multiplyPoly",
           [err |-> "",
            polys |-> <<multiplyPoly(BinaryGFPoly(input.a), BinaryGFPoly(input.b))>>])

PolyMultiplyScalar ==
    /\ Operands
    /\ \E x \in Coefficients :
           Returned("multiplyScalar",
               [err |-> "", polys |-> <<multiplyScalar(BinaryGFPoly(input.a), x)>>])

PolyDividePoly ==
    /\ Operands
    /\ Returned("dividePoly",
           utilDividePoly(BinaryGFPoly(input.a), BinaryGFPoly(input.b)))

PolySpec ==
    PolyInit /\ [][Construct \/ PolyAdd \/ PolyMultiplyPoly \/ PolyMultiplyScalar
                       \/ PolyDividePoly]_vars

(***************************************************************************)
(* The Reed-Solomon coder on its own: encode of a data array with a parity *)
(* count, then decode of what encode returned.                             *)
(***************************************************************************)
MaxDataLength == 4

MaxParity == 6

RsInit ==
    /\ pc = "rs"
    /\ Idle
    /\ input \in {[data |-> d, ecSymbols |-> k] :
                     d \in ArraysUpTo(MaxDataLength), k \in 0..MaxParity}
    /\ output = NoResult

RsEncode ==
    /\ pc = "rs"
    /\ output' = [encoded |-> ReedSolomonEncode(input.data, input.ecSymbols)]
    /\ pc' = "rsEncoded"
    /\ UNCHANGED <<payload, ecLevel, encoded, received, decoded, input>>

\* decode of the encoded array; with no parity the syndrome array is empty and the
\* polynomial constructor throws.
RsDecode ==
    /\ pc = "rsEncoded"
    /\ output.encoded.err = ""
    /\ output' =
           IF input.ecSymbols = 0
           THEN [encoded |-> output.encoded, syndromes |-> <<>>,
                 decoded |-> [err |-> construct(<<>>).err, data |-> <<>>]]
           ELSE [encoded |-> output.encoded,
                 syndromes |->
                     computeSyndromes(BinaryGFPoly(output.encoded.data), input.ecSymbols),
                 decoded |-> ReedSolomonDecode(output.encoded.data, input.ecSymbols)]
    /\ pc' = "rsDecoded"
    /\ UNCHANGED <<payload, ecLevel, encoded, received, decoded, input>>

RsSpec == RsInit /\ [][RsEncode \/ RsDecode]_vars

(***************************************************************************)
(* ReedSolomonDecoder.decode with the loop of computeLocatorAndEvaluator   *)
(* taken one iteration at a time, for every received array of bounded      *)
(* length and every even parity count from 2 on.                           *)
(* MaxIterations bounds the passes of the model; it is above every parity  *)
(* count of the bound.                                                     *)
(***************************************************************************)
MaxEuclidLength == 5

MaxEuclidParity == 4

MaxIterations == 8

EuclidInit ==
    /\ pc = "syndromes"
    /\ Idle
    /\ input \in {[received |-> r, ecSymbols |-> k] :
                     r \in ArraysUpTo(MaxEuclidLength) \ {<<>>},
                     k \in {n \in 2..MaxEuclidParity : n % 2 = 0}}
    /\ output = NoResult

\* decode up to the loop: the syndromes, the return on a zero syndrome
\* polynomial, and the initial R2, R1, A2, A1.
Syndromes ==
    /\ pc = "syndromes"
    /\ \E syndromes \in {computeSyndromes(BinaryGFPoly(input.received), input.ecSymbols)} :
           IF isZero(syndromes)
           THEN /\ output' = [e |-> <<>>, iterations |-> 0, previous |-> 0,
                              decoded |-> [err |-> "", data |-> input.received]]
                /\ pc' = "returned"
           ELSE /\ output' = [e |-> <<buildMonomial(input.ecSymbols, 1), syndromes,
                                      getZeroPoly, getOnePoly>>,
                              iterations |-> 0, previous |-> getDegree(syndromes),
                              decoded |-> NoResult]
                /\ pc' = "euclid"
    /\ UNCHANGED <<payload, ecLevel, encoded, received, decoded, input>>

\* The guards of EuclidIterate and EuclidReturn. Each of the two actions changes
\* output or pc, so it is enabled exactly when its guard holds.
IterateGuard ==
    /\ pc = "euclid"
    /\ 2 * getDegree(output.e[2]) >= input.ecSymbols
    /\ output.iterations < MaxIterations

ReturnGuard ==
    /\ pc = "euclid"
    /\ 2 * getDegree(output.e[2]) < input.ecSymbols

\* One pass of the while loop, the quotient taken by dividePoly of
\* util/reedsolomon/BinaryGFPoly.ts, the revision of the division under src/; a
\* throw of dividePoly ends decode. previous keeps the degree R1 had before the pass.
EuclidIterate ==
    /\ IterateGuard
    /\ \E d \in {utilDividePoly(output.e[1], output.e[2])} :
           IF d.err # ""
           THEN /\ output' = [output EXCEPT !.decoded = [err |-> d.err, data |-> <<>>]]
                /\ pc' = "returned"
           ELSE /\ \E e \in {euclidStep(output.e[1], output.e[2], output.e[3], output.e[4],
                                         d.polys[1])} :
                       output' = [e |-> e,
                                  iterations |-> output.iterations + 1,
                                  previous |-> getDegree(output.e[2]),
                                  decoded |-> NoResult]
                /\ pc' = pc
    /\ UNCHANGED <<payload, ecLevel, encoded, received, decoded, input>>

\* The loop is left: the locator and evaluator, the roots, the corrections.
EuclidReturn ==
    /\ ReturnGuard
    /\ \E le \in {lastOf(output.e)} :
           \E result \in {decodeWith(input.received, le)} :
               output' = [output EXCEPT !.decoded = result]
    /\ pc' = "returned"
    /\ UNCHANGED <<payload, ecLevel, encoded, received, decoded, input>>

\* decode is one synchronous call: a step that can be taken is taken. The weak
\* fairness of EuclidIterate and of EuclidReturn is written out, with the guard
\* in the place of ENABLED.
EuclidSpec ==
    /\ EuclidInit
    /\ [][Syndromes \/ EuclidIterate \/ EuclidReturn]_vars
    /\ WF_vars(Syndromes)
    /\ ([]<>(~IterateGuard) \/ []<><<EuclidIterate>>_vars)
    /\ ([]<>(~ReturnGuard) \/ []<><<EuclidReturn>>_vars)

(***************************************************************************)
(* The sizing of Encoder.encode on its own: for a payload of every length  *)
(* and every whole percentage as ecLevel, the side and the number of       *)
(* parity symbols encode passes to the Reed-Solomon encoder.               *)
(***************************************************************************)
MaxPercent == 100

SizingInit ==
    /\ pc = "sizing"
    /\ payload \in {Cycle(msg, n) : n \in 1..MaxPayloadLength}
    /\ ecLevel \in 0..MaxPercent
    /\ encoded = NoResult
    /\ received = <<>>
    /\ decoded = NoResult
    /\ input = NoResult
    /\ output = NoResult

\* encode up to the allocation of the data array: the throws, sideLength, ecSymbols
\* and the length of the data array.
Sizing ==
    /\ pc = "sizing"
    /\ output' =
           IF encodeRejection(payload, ecLevel) # ""
           THEN [err |-> encodeRejection(payload, ecLevel), size |-> 0, ecSymbols |-> 0,
                 dataLength |-> 0]
           ELSE LET minimumSize ==
                        OFFSET + Len(payload) + requiredEcSymbols(Len(payload), ecLevel)
                    sideLength == sideLengthFrom(1, minimumSize)
                    ecSymbols == fittedEcSymbols(requiredEcSymbols(Len(payload), ecLevel),
                                     sideLength * sideLength, minimumSize)
                IN  [err |-> "", size |-> sideLength, ecSymbols |-> ecSymbols,
                     dataLength |-> sideLength * sideLength - ecSymbols]
    /\ pc' = "sized"
    /\ UNCHANGED <<payload, ecLevel, encoded, received, decoded, input>>

SizingSpec == SizingInit /\ [][Sizing]_vars

(***************************************************************************)
(* Decoder.decode on its own: one call on an array of any length.          *)
(***************************************************************************)
MaxReceivedLength == 9

MaxSymbol == 3

ContentInit ==
    /\ pc = "validate"
    /\ payload = <<>>
    /\ ecLevel = 0
    /\ encoded = NoResult
    /\ received \in UNION {{Array(f) : f \in [1..n -> {0, 1, MaxSymbol}]} :
                              n \in 0..MaxReceivedLength}
    /\ decoded = NoResult
    /\ input = NoResult
    /\ output = NoResult

ContentDecode ==
    /\ pc = "validate"
    /\ decoded' = DecoderDecode(received)
    /\ pc' = "validated"
    /\ UNCHANGED <<payload, ecLevel, encoded, received, input, output>>

ContentSpec == ContentInit /\ [][ContentDecode]_vars

(***************************************************************************)
(* One ReedSolomonEncoder and its cache of generators over a sequence of   *)
(* encode calls.  input is the sequence of the calls made; output holds    *)
(* the cache, the cache before the last call and the generator that call   *)
(* used.                                                                   *)
(***************************************************************************)
MaxCalls == 3

MaxDegree == 6

GeneratorInit ==
    /\ pc = "encoder"
    /\ Idle
    /\ input = <<>>
    /\ output = [generators |-> <<getOnePoly>>, previous |-> <<>>, generator |-> <<>>]

\* encode(data, ecSymbols) up to the generator it divides by: no generator is asked
\* for when data is empty or ecSymbols is 0.
EncodeCall ==
    /\ pc = "encoder"
    /\ Len(input) < MaxCalls
    /\ \E ecSymbols \in 0..MaxDegree, dataLength \in 0..1 :
           /\ input' = Append(input, [dataLength |-> dataLength, ecSymbols |-> ecSymbols])
           /\ output' =
                  IF dataLength = 0 \/ ecSymbols = 0
                  THEN [generators |-> output.generators,
                        previous |-> output.generators, generator |-> <<>>]
                  ELSE [generators |-> getGenerator(output.generators, ecSymbols),
                        previous |-> output.generators,
                        generator |->
                            getGenerator(output.generators, ecSymbols)[ecSymbols + 1]]
    /\ UNCHANGED <<pc, payload, ecLevel, encoded, received, decoded>>

GeneratorSpec == GeneratorInit /\ [][EncodeCall]_vars

(***************************************************************************)
(* Locator.assignFinders on three pattern centres.                         *)
(***************************************************************************)
sqDistance(a, b) == (a.x - b.x) * (a.x - b.x) + (a.y - b.y) * (a.y - b.y)

vec(a, b) == [x |-> b.x - a.x, y |-> b.y - a.y]

cross(a, b) == a.x * b.y - a.y * b.x

\* The first swap taking AC whenever it is longer than AB.
longestFirstIgnoringBC(a, b, c) ==
    IF sqDistance(a, c) > sqDistance(a, b) THEN <<a, c, b>>
    ELSE IF sqDistance(b, c) > sqDistance(a, b) THEN <<c, b, a>>
    ELSE <<a, b, c>>

\* <<a, b, c>> after the first swap: [c, b] = [b, c] or [c, a] = [a, c].
longestFirst(a, b, c) ==
    IF sqDistance(a, c) > sqDistance(a, b) /\ sqDistance(a, c) > sqDistance(b, c)
    THEN <<a, c, b>>
    ELSE IF sqDistance(b, c) > sqDistance(a, b) THEN <<c, b, a>>
    ELSE <<a, b, c>>

\* The second swap made when the cross product is not positive.
orientInverted(s) ==
    IF cross(vec(s[1], s[2]), vec(s[1], s[3])) <= 0 THEN <<s[2], s[1], s[3]>> ELSE s

\* <<a, b, c>> after the second swap: [a, b] = [b, a].
orient(s) ==
    IF cross(vec(s[1], s[2]), vec(s[1], s[3])) > 0 THEN <<s[2], s[1], s[3]>> ELSE s

\* this.locations after assignFinders(a, b, c).
assignFinders(a, b, c) ==
    [bottomLeft |-> orient(longestFirst(a, b, c))[1],
     topRight |-> orient(longestFirst(a, b, c))[2],
     topLeft |-> orient(longestFirst(a, b, c))[3]]

MaxCoordinate == 3

Points == {[x |-> i, y |-> j] : i \in 0..MaxCoordinate, j \in 0..MaxCoordinate}

AssignInit ==
    /\ pc = "assign"
    /\ Idle
    /\ input \in {[a |-> a, b |-> b, c |-> c] : a \in Points, b \in Points, c \in Points}
    /\ Cardinality({input.a, input.b, input.c}) = 3
    /\ output = NoResult

AssignFinders ==
    /\ pc = "assign"
    /\ output' = assignFinders(input.a, input.b, input.c)
    /\ pc' = "assigned"
    /\ UNCHANGED <<payload, ecLevel, encoded, received, decoded, input>>

AssignSpec == AssignInit /\ [][AssignFinders]_vars

(***************************************************************************)
(* decode of an RGBA image: the options, FastAdaptiveBinarizer, Locator    *)
(* and PatternLocator.  An image is white with up to three square marks of *)
(* ring widths 1:1:3:1:1 near its corners.                                 *)
(***************************************************************************)
BLOCK_SIZE == 80

MEAN_CONST == 2

MIN_VARIANCE == 20

Abs(n) == IF n < 0 THEN 0 - n ELSE n

Max(a, b) == IF a > b THEN a ELSE b

Min(a, b) == IF a < b THEN a ELSE b

\* The value a Uint8ClampedArray stores for num / den: clamped to 0..255 and rounded
\* to the nearest integer, halves to the even one.
clamp8(num, den) ==
    IF num <= 0 THEN 0
    ELSE IF num >= 255 * den THEN 255
    ELSE IF 2 * (num % den) < den THEN num \div den
    ELSE IF 2 * (num % den) > den THEN (num \div den) + 1
    ELSE (num \div den) + ((num \div den) % 2)

\* The red, green and blue byte of pixel (x, y) in the caller's buffer: mark k has
\* its corner 3 pixels from the image corner and rings of 2 pixels. marks = 4 stands
\* for three marks of which the third is in the middle of the bottom edge.
rgbAt(image, x, y) ==
    IF \E k \in 1..Min(image.marks, 3) :
           LET dx == x - (IF k = 2 THEN image.width - 17
                          ELSE IF k = 3 /\ image.marks = 4 THEN (image.width \div 2) - 7
                          ELSE 3)
               dy == y - (IF k = 3 THEN image.height - 17 ELSE 3)
           IN  /\ dx \in 0..13
               /\ dy \in 0..13
               /\ \E ring \in {0, 2, 3} :
                      /\ \A d \in {dx \div 2, dy \div 2, 6 - (dx \div 2), 6 - (dy \div 2)} :
                             d >= ring
                      /\ \E d \in {dx \div 2, dy \div 2, 6 - (dx \div 2), 6 - (dy \div 2)} :
                             d = ring
    THEN 0
    ELSE 255

\* Binarizer.toGrayscale after the inversion loop of decode: luma of the three bytes,
\* stored in a ByteMatrix; rows and columns are counted from 1 in the model.
toGrayscale(image, negated) ==
    Array([y \in 1..image.height |-> Array([x \in 1..image.width |->
        LET c == IF negated THEN 255 - rgbAt(image, x - 1, y - 1)
                 ELSE rgbAt(image, x - 1, y - 1)
        IN  clamp8(2126 * c + 7152 * c + 722 * c, 10000)])])

\* acc plus arr[from] + ... + arr[from + count - 1]; the range is summed by halves.
RECURSIVE sumArray(_, _, _, _)
sumArray(arr, from, count, acc) ==
    IF count <= 0 \/ acc < 0 THEN acc
    ELSE IF count = 1 THEN acc + arr[from]
    ELSE sumArray(arr, from + (count \div 2), count - (count \div 2),
             sumArray(arr, from, count \div 2, acc))

\* calculateLocalMeanTable: T(x, y) for 0 <= x <= width - BLOCK_SIZE and
\* 0 <= y <= height - BLOCK_SIZE, the mean of the block with that origin less MEAN_CONST.
calculateLocalMeanTable(mat) ==
    Array([y \in 1..(Len(mat) - BLOCK_SIZE + 1) |->
        Array([x \in 1..(Len(mat[1]) - BLOCK_SIZE + 1) |->
            clamp8(
                sumArray(Array([r \in 1..BLOCK_SIZE |->
                             sumArray(mat[y + r - 1], x, BLOCK_SIZE, 0)]),
                         1, BLOCK_SIZE, 0)
                    - MEAN_CONST * BLOCK_SIZE * BLOCK_SIZE,
                BLOCK_SIZE * BLOCK_SIZE)])])

\* blockX / blockY without the minimum with length - 1.
blockOriginUnbounded(p, length) ==
    LET near == p + (BLOCK_SIZE \div 2)
    IN  IF near - BLOCK_SIZE + 1 > 0 THEN near - BLOCK_SIZE + 1 ELSE 0

\* blockX / blockY of a pixel coordinate p on an axis of the given length.
blockOrigin(p, length) ==
    LET near == IF p + (BLOCK_SIZE \div 2) < length - 1
                THEN p + (BLOCK_SIZE \div 2) ELSE length - 1
    IN  IF near - BLOCK_SIZE + 1 > 0 THEN near - BLOCK_SIZE + 1 ELSE 0

\* One pixel of binarize: <<bit, value written back to the grayscale matrix>>.  The
\* threshold is kept as sixths (th6): the mean, the neighbours' average (a third) or
\* color / 2 - MEAN_CONST on the border.
binarizePixel(color, mean, border, neighbours) ==
    LET th6 == IF Abs(mean - color) >= MIN_VARIANCE THEN 6 * mean
               ELSE IF border THEN 3 * color - 6 * MEAN_CONST
               ELSE IF 3 * Abs(mean - color) < Abs(neighbours - 3 * color)
                    THEN 2 * neighbours
                    ELSE 6 * mean
    IN  <<IF 6 * color < th6 THEN 1 ELSE 0, clamp8(th6, 6)>>

\* The inner loop over x in x .. endX - 1 (counted from 0), in order; the range is
\* walked by halves.  colors is the grayscale row, above the row before it as rewritten
\* (empty for y = 0), means the row of T for this y, row = <<bits, values written>>.
RECURSIVE binarizeRow(_, _, _, _, _, _)
binarizeRow(colors, above, means, x, endX, row) ==
    IF x >= endX \/ Len(row[1]) # x THEN row
    ELSE IF endX = x + 1
    THEN LET px == binarizePixel(colors[x + 1],
                       means[blockOrigin(x, Len(colors)) + 1],
                       x = 0 \/ Len(above) = 0,
                       IF x = 0 \/ Len(above) = 0 THEN 0
                       ELSE row[2][x] + above[x + 1] + above[x])
         IN  <<Append(row[1], px[1]), Append(row[2], px[2])>>
    ELSE binarizeRow(colors, above, means, (x + endX) \div 2, endX,
             binarizeRow(colors, above, means, x, (x + endX) \div 2, row))

\* PatternLocator.  A state array is a sequence, stateIdx counts from 0 as in the code;
\* points are records of pixel coordinates counted from 0.
FINDER_RATIOS == <<1, 1, 3, 1, 1>>

ALIGNMENT_RATIOS == <<1, 3, 1>>

\* unit = sum / ratiosSum and maxVariance = unit / 2, compared after multiplying both
\* sides by 2 * ratiosSum.
isValidPattern(ratios, state) ==
    /\ \A i \in 1..Len(state) : state[i] # 0
    /\ sumArray(state, 1, Len(state), 0) >= sumArray(ratios, 1, Len(ratios), 0)
    /\ \A i \in 1..Len(ratios) :
           2 * Abs(state[i] * sumArray(ratios, 1, Len(ratios), 0)
                   - sumArray(state, 1, Len(state), 0) * ratios[i])
               <= ratios[i] * sumArray(state, 1, Len(state), 0)

centerFromEnd(patternEnd, state) ==
    [x |-> patternEnd.x - (state[(Len(state) \div 2) + 1] \div 2)
               - sumArray(state, (Len(state) \div 2) + 2,
                          Len(state) - (Len(state) \div 2) - 1, 0),
     y |-> patternEnd.y]

\* Matrix.get: the cell y * width + x of the data array, rows counted from 1 in the
\* model; -1 stands for the undefined read outside the array, equal to no bit.
get(matrix, x, y) ==
    IF y * Len(matrix[1]) + x < 0 \/ y * Len(matrix[1]) + x >= Len(matrix) * Len(matrix[1])
    THEN -1
    ELSE matrix[((y * Len(matrix[1]) + x) \div Len(matrix[1])) + 1]
               [((y * Len(matrix[1]) + x) % Len(matrix[1])) + 1]

\* One counting loop of calculatePatternMeasures: the passes k .. endK - 1, pass k at
\* pixel (x + k * dx, y + k * dy), walked by halves.  s = [stateIdx, state, done]; dir is
\* 1 for the forward loop (++stateIdx) and -1 for the backward one (--stateIdx), which
\* is entered with (-dx, -dy); done is set where the loop ends or breaks.
RECURSIVE countRun(_, _, _, _, _, _, _, _, _, _)
countRun(matrix, x, y, dx, dy, dir, maxCount, k, endK, s) ==
    IF k >= endK \/ s.done THEN s
    ELSE IF endK > k + 1
    THEN countRun(matrix, x, y, dx, dy, dir, maxCount, (k + endK) \div 2, endK,
             countRun(matrix, x, y, dx, dy, dir, maxCount, k, (k + endK) \div 2, s))
    ELSE IF \/ x + k * dx = (IF dx = -1 THEN -1 ELSE Len(matrix[1]))
            \/ y + k * dy = (IF dy = -1 THEN -1 ELSE Len(matrix))
    THEN [s EXCEPT !.done = TRUE]
    ELSE LET stateIdx == IF (s.stateIdx % 2) = get(matrix, x + k * dx, y + k * dy)
                         THEN s.stateIdx + dir ELSE s.stateIdx
         IN  IF stateIdx = Len(s.state) \/ stateIdx = -1 THEN [s EXCEPT !.done = TRUE]
             ELSE [stateIdx |-> stateIdx,
                   state |-> [s.state EXCEPT ![stateIdx + 1] = @ + 1],
                   done |-> s.state[stateIdx + 1] + 1 > maxCount]

\* The forward loop, the backward loop, then the corrected centre.  Every pass that
\* does not end a loop adds 1 to a count of at most maxCount, which bounds the passes.
calculatePatternMeasures(matrix, ratios, patternCenter, dx, dy, maxCount) ==
    LET mid == (Len(ratios) \div 2) + 1
        forward == countRun(matrix, patternCenter.x, patternCenter.y, dx, dy, 1, maxCount,
                       0, Len(ratios) * (maxCount + 1) + 1,
                       [stateIdx |-> Len(ratios) \div 2, state |-> Zeros(Len(ratios)),
                        done |-> FALSE]).state
        state == countRun(matrix, patternCenter.x - dx, patternCenter.y - dy,
                     0 - dx, 0 - dy, -1, maxCount, 0,
                     Len(ratios) * (maxCount + 1) + 1,
                     [stateIdx |-> Len(ratios) \div 2, state |-> forward,
                      done |-> FALSE]).state
        shift == (forward[mid] - (state[mid] - forward[mid])) \div 2
    IN  [location |-> [x |-> patternCenter.x + shift * dx, y |-> patternCenter.y + shift * dy],
         state |-> state]

\* sum of (state[i] / averageUnit / ratios[i] - 1)^2 with the unit error in thousandths;
\* size is 1000 * averageSize and root is 1000 for the axes, 1414 (1000 * SQRT2) for the
\* diagonals, whose unit is averageUnit / SQRT2.
RECURSIVE calculateStateError(_, _, _, _, _, _)
calculateStateError(ratios, state, averageSize, root, i, error) ==
    IF i > Len(ratios) \/ error < 0 THEN error
    ELSE calculateStateError(ratios, state, averageSize, root, i + 1,
             error + (((state[i] * sumArray(ratios, 1, Len(ratios), 0) * root * 1000)
                          \div (averageSize * ratios[i])) - 1000)
                   * (((state[i] * sumArray(ratios, 1, Len(ratios), 0) * root * 1000)
                          \div (averageSize * ratios[i])) - 1000))

\* The LocationError from the four measures: size in thousandths of a pixel, error in
\* millionths.
calculateLocationError(matrix, ratios, patternCenter, maxCount) ==
    LET vertical == calculatePatternMeasures(matrix, ratios, patternCenter, 0, 1, maxCount)
        horizontal == calculatePatternMeasures(matrix, ratios, patternCenter, 1, 0, maxCount)
        mainDiagonal == calculatePatternMeasures(matrix, ratios, patternCenter, 1, 1, maxCount)
        skewDiagonal == calculatePatternMeasures(matrix, ratios, patternCenter, -1, 1, maxCount)
        averageSize == (1000 * (sumArray(vertical.state, 1, Len(ratios), 0)
                                + sumArray(horizontal.state, 1, Len(ratios), 0))
                        + 1414 * (sumArray(mainDiagonal.state, 1, Len(ratios), 0)
                                  + sumArray(skewDiagonal.state, 1, Len(ratios), 0))) \div 4
    IN  [location |-> [x |-> horizontal.location.x, y |-> vertical.location.y],
         error |-> (calculateStateError(ratios, vertical.state, averageSize, 1000, 1, 0)
                    + calculateStateError(ratios, horizontal.state, averageSize, 1000, 1, 0)
                    + calculateStateError(ratios, mainDiagonal.state, averageSize, 1414, 1, 0)
                    + calculateStateError(ratios, skewDiagonal.state, averageSize, 1414, 1, 0))
                       \div (4 * Len(ratios)),
         size |-> averageSize]

\* The body of the loop over x for pixel (x, y); s = [stateIdx, state, locations].  At
\* the final state change the candidate, if the row pattern and the vertical pattern
\* through its centre are valid, is appended to the locations.
scanPixel(matrix, ratios, x, y, s) ==
    IF (s.stateIdx % 2) # matrix[y + 1][x + 1]
    THEN [s EXCEPT !.state[s.stateIdx + 1] = @ + 1]
    ELSE IF s.stateIdx + 1 < Len(ratios)
    THEN [s EXCEPT !.stateIdx = @ + 1, !.state[s.stateIdx + 2] = @ + 1]
    ELSE [stateIdx |-> Len(ratios) - 2,
          state |-> Array([i \in 1..Len(ratios) |->
                        IF i <= Len(ratios) - 2 THEN s.state[i + 2]
                        ELSE IF i = Len(ratios) - 1 THEN 1 ELSE 0]),
          locations |->
              IF /\ isValidPattern(ratios, s.state)
                 /\ isValidPattern(ratios,
                        calculatePatternMeasures(matrix, ratios,
                            centerFromEnd([x |-> x - 1, y |-> y], s.state), 0, 1,
                            4 * s.state[(Len(ratios) \div 2) + 1]).state)
              THEN Append(s.locations,
                       calculateLocationError(matrix, ratios,
                           centerFromEnd([x |-> x - 1, y |-> y], s.state),
                           4 * s.state[(Len(ratios) \div 2) + 1]))
              ELSE s.locations]

\* The loop over x in x .. endX - 1, in order; the range is walked by halves.
RECURSIVE scanRow(_, _, _, _, _, _)
scanRow(matrix, ratios, x, y, endX, s) ==
    IF x >= endX \/ s.stateIdx < 0 THEN s
    ELSE IF endX = x + 1 THEN scanPixel(matrix, ratios, x, y, s)
    ELSE scanRow(matrix, ratios, (x + endX) \div 2, y, endX,
             scanRow(matrix, ratios, x, y, (x + endX) \div 2, s))

\* After the loop over x: a valid pattern cut by the right side is a candidate and the
\* state is kept; otherwise the state is emptied.
endOfRow(matrix, ratios, y, endX, s) ==
    IF s.stateIdx = Len(ratios) - 1 /\ isValidPattern(ratios, s.state)
    THEN [s EXCEPT !.locations =
             Append(@, calculateLocationError(matrix, ratios,
                           centerFromEnd([x |-> endX - 1, y |-> y], s.state),
                           2 * s.state[(Len(ratios) \div 2) + 1]))]
    ELSE [stateIdx |-> 0, state |-> Zeros(Len(ratios)), locations |-> s.locations]

(***************************************************************************)
(* Locator: the choice of three finder patterns and the search of the      *)
(* alignment pattern.  Sizes are in thousandths of a pixel.                *)
(***************************************************************************)
MIN_PATTERN_DIST == 50

LOOSE_SIZE_TOLERANCE == 5

CONFINED_SIZE_TOLERANCE == 4

nearlySame(a, b, eps) == Abs(a.x - b.x) < eps /\ Abs(a.y - b.y) < eps

\* distance(a, b) in hundredths of a pixel, rounded down.
distance(a, b) ==
    CHOOSE r \in 0..(100 * (Abs(a.x - b.x) + Abs(a.y - b.y))) :
        /\ r * r <= 10000 * sqDistance(a, b)
        /\ (r + 1) * (r + 1) > 10000 * sqDistance(a, b)

\* locations.sort(compareError): ascending error, patterns of equal error in the
\* order they were found.
sortByError(locations) ==
    LET rank(i) == 1 + Cardinality({j \in 1..Len(locations) :
                           \/ locations[j].error < locations[i].error
                           \/ locations[j].error = locations[i].error /\ j < i})
    IN  Array([k \in 1..Len(locations) |->
                  locations[CHOOSE i \in 1..Len(locations) : rank(i) = k]])

\* The loop of findOptimalPatterns from finders[i] on (i counted from 1); an
\* estimatedSize of 0 is an absent one: no size check happens.
RECURSIVE optimalFinders(_, _, _, _)
optimalFinders(finders, estimatedSize, i, found) ==
    IF i > Len(finders) \/ Len(found) >= 3 THEN found
    ELSE optimalFinders(finders, estimatedSize, i + 1,
             IF /\ \A k \in 1..Len(found) :
                       ~nearlySame(found[k].location, finders[i].location, MIN_PATTERN_DIST)
                /\ \/ estimatedSize = 0
                   \/ /\ finders[i].size < LOOSE_SIZE_TOLERANCE * estimatedSize
                      /\ finders[i].size * CONFINED_SIZE_TOLERANCE > estimatedSize
             THEN Append(found, finders[i])
             ELSE found)

\* findOptimalPatterns throwing the message of the extractor.
findOptimalPatternsOtherMessage(finders, estimatedSize) ==
    IF Len(optimalFinders(finders, estimatedSize, 1, <<>>)) < 3
    THEN [err |-> "No valid finder patterns found!", patterns |-> <<>>]
    ELSE [err |-> "", patterns |-> optimalFinders(finders, estimatedSize, 1, <<>>)]

\* findOptimalPatterns: the throw, or the three patterns.
findOptimalPatterns(finders, estimatedSize) ==
    IF Len(optimalFinders(finders, estimatedSize, 1, <<>>)) < 3
    THEN [err |-> "Couldn't Locate Finder Patterns!", patterns |-> <<>>]
    ELSE [err |-> "", patterns |-> optimalFinders(finders, estimatedSize, 1, <<>>)]

(***************************************************************************)
(* decode(data, width, height, options), one action for each of its steps. *)
(* input is the call: the image and options.inverted; output is what the   *)
(* call has made so far: whether the bytes of data are negated, the        *)
(* binarized matrix, the finder candidates, the patterns, the stages that  *)
(* have run and the error thrown.                                          *)
(***************************************************************************)
MaxExtra == 1

\* The call: an image of up to three marks (marks = 4: three marks, the third in the
\* middle of the bottom edge), of a side from one pixel under BLOCK_SIZE on, with data
\* of the right length or of four bytes more, and options.inverted.
DecodeInit ==
    /\ pc = "decode"
    /\ Idle
    /\ input \in {[image |-> [width |-> w, height |-> h, marks |-> m,
                              length |-> 4 * w * h + excess],
                   inverted |-> inverted] :
                     w \in (BLOCK_SIZE - 1)..(BLOCK_SIZE + MaxExtra),
                     h \in (BLOCK_SIZE - 1)..(BLOCK_SIZE + MaxExtra),
                     m \in 0..4, excess \in {0, 4},
                     inverted \in {"undefined", "false", "true"}}
    /\ output = NoResult

\* The state of PatternLocator.locate before its first row.
scanFrom(ratios, startPoint, endPoint) ==
    [ratios |-> ratios, startPoint |-> startPoint, endPoint |-> endPoint,
     y |-> startPoint.y, stateIdx |-> 0, state |-> Zeros(Len(ratios)), locations |-> <<>>]

\* The default of options.inverted and the loop over the pixels of data.
Options ==
    /\ pc = "decode"
    /\ output' = [err |-> "", negated |-> input.inverted = "true", stages |-> <<>>,
                  gray |-> <<>>, T |-> <<>>, y |-> 0, above |-> <<>>,
                  binarizedMatrix |-> <<>>,
                  scan |-> scanFrom(FINDER_RATIOS, [x |-> 0, y |-> 0], [x |-> 0, y |-> 0]),
                  finders |-> <<>>, patterns |-> NoResult, lookups |-> NoResult]
    /\ pc' = "binarize"
    /\ UNCHANGED <<payload, ecLevel, encoded, received, decoded, input>>

\* binarize up to its loops: the two throws, the grayscale matrix and the table of
\* local means.
Binarize ==
    /\ pc = "binarize"
    /\ IF input.image.length # input.image.width * input.image.height * 4
       THEN /\ output' = [output EXCEPT !.err = "incorrect data length!",
                                        !.stages = Append(@, "binarize")]
            /\ pc' = "thrown"
       ELSE IF input.image.width < BLOCK_SIZE \/ input.image.height < BLOCK_SIZE
       THEN /\ output' = [output EXCEPT !.err = "Image is too small!",
                                        !.stages = Append(@, "binarize")]
            /\ pc' = "thrown"
       ELSE /\ \E gray \in {toGrayscale(input.image, output.negated)} :
                   output' = [output EXCEPT !.gray = gray,
                                            !.T = calculateLocalMeanTable(gray),
                                            !.stages = Append(@, "binarize")]
            /\ pc' = "threshold"
    /\ UNCHANGED <<payload, ecLevel, encoded, received, decoded, input>>

\* One pass of the loop over y in binarize: row output.y of the matrix.  After the last
\* row binarize returns, and Locator.locate starts the scan for finder patterns.
Threshold ==
    /\ pc = "threshold"
    /\ \E row \in {binarizeRow(output.gray[output.y + 1], output.above,
                       output.T[blockOrigin(output.y, input.image.height) + 1],
                       0, input.image.width, <<(<<>>), (<<>>)>>)} :
           IF output.y + 1 < input.image.height
           THEN /\ output' = [output EXCEPT !.binarizedMatrix = Append(@, row[1]),
                                            !.above = row[2],
                                            !.y = @ + 1]
                /\ pc' = "threshold"
           ELSE /\ output' = [output EXCEPT
                                  !.binarizedMatrix = Append(@, row[1]),
                                  !.above = row[2],
                                  !.y = @ + 1,
                                  !.stages = Append(@, "locate"),
                                  !.scan = scanFrom(FINDER_RATIOS, [x |-> 0, y |-> 0],
                                               [x |-> input.image.width,
                                                y |-> input.image.height])]
                /\ pc' = "scan"
    /\ UNCHANGED <<payload, ecLevel, encoded, received, decoded, input>>

\* One pass of the loop over y in PatternLocator.locate: row scan.y, then y += 2.
ScanRow ==
    /\ pc = "scan"
    /\ output.scan.y < output.scan.endPoint.y
    /\ \E s \in {endOfRow(output.binarizedMatrix, output.scan.ratios, output.scan.y,
                     output.scan.endPoint.x,
                     scanRow(output.binarizedMatrix, output.scan.ratios,
                         output.scan.startPoint.x, output.scan.y, output.scan.endPoint.x,
                         [stateIdx |-> output.scan.stateIdx, state |-> output.scan.state,
                          locations |-> output.scan.locations]))} :
           output' = [output EXCEPT !.scan.stateIdx = s.stateIdx,
                                    !.scan.state = s.state,
                                    !.scan.locations = s.locations,
                                    !.scan.y = @ + 2]
    /\ pc' = "scan"
    /\ UNCHANGED <<payload, ecLevel, encoded, received, decoded, input>>

\* Locator.locate after the scan for finder patterns: the sort, the two calls of
\* findOptimalPatterns, assignFinders, the estimate of the bottom-right pattern and
\* the region in which the alignment pattern is searched.
SelectFinders ==
    /\ pc = "scan"
    /\ output.scan.ratios = FINDER_RATIOS
    /\ output.scan.y >= output.scan.endPoint.y
    /\ \E first \in {findOptimalPatterns(sortByError(output.scan.locations), 0)} :
           IF first.err # ""
           THEN /\ output' = [output EXCEPT !.finders = output.scan.locations,
                                            !.err = first.err]
                /\ pc' = "thrown"
           ELSE \E optimal \in {findOptimalPatterns(sortByError(output.scan.locations),
                                    Max(first.patterns[1].size,
                                        Max(first.patterns[2].size, first.patterns[3].size)))} :
                    IF optimal.err # ""
                    THEN /\ output' = [output EXCEPT !.finders = output.scan.locations,
                                                     !.err = optimal.err]
                         /\ pc' = "thrown"
                    ELSE \E corners \in {assignFinders(optimal.patterns[1].location,
                                             optimal.patterns[2].location,
                                             optimal.patterns[3].location)} :
                         \E bottomRight \in
                                {[x |-> corners.topRight.x - corners.topLeft.x
                                            + corners.bottomLeft.x,
                                  y |-> corners.topRight.y - corners.topLeft.y
                                            + corners.bottomLeft.y]} :
                         \E patternsDistance \in
                                {(distance(corners.topLeft, corners.topRight)
                                  + distance(corners.topLeft, corners.bottomLeft) + 100)
                                 \div 200} :
                             /\ output' = [output EXCEPT
                                    !.finders = output.scan.locations,
                                    !.patterns =
                                        [topLeft |-> corners.topLeft,
                                         topRight |-> corners.topRight,
                                         bottomLeft |-> corners.bottomLeft,
                                         bottomRight |-> bottomRight,
                                         finderAverageSize |->
                                             (optimal.patterns[1].size
                                              + optimal.patterns[2].size
                                              + optimal.patterns[3].size) \div 3,
                                         alignmentSize |->
                                             (5 * (optimal.patterns[1].size
                                                   + optimal.patterns[2].size
                                                   + optimal.patterns[3].size)) \div 21],
                                    !.scan = scanFrom(ALIGNMENT_RATIOS,
                                        [x |-> Max(0, bottomRight.x - patternsDistance),
                                         y |-> Max(0, bottomRight.y - patternsDistance)],
                                        [x |-> Min(input.image.width,
                                                   bottomRight.x + patternsDistance),
                                         y |-> Min(input.image.height,
                                                   bottomRight.y + patternsDistance)])]
                             /\ pc' = "scan"
    /\ UNCHANGED <<payload, ecLevel, encoded, received, decoded, input>>

\* Locator.locate after the scan for alignment patterns: the first of them, by error,
\* of an acceptable size replaces the estimate.
SelectAlignment ==
    /\ pc = "scan"
    /\ output.scan.ratios = ALIGNMENT_RATIOS
    /\ output.scan.y >= output.scan.endPoint.y
    /\ \E alignments \in {sortByError(output.scan.locations)} :
       \E fitting \in
              {{i \in 1..Len(alignments) :
                   /\ alignments[i].size < LOOSE_SIZE_TOLERANCE * output.patterns.alignmentSize
                   /\ alignments[i].size * CONFINED_SIZE_TOLERANCE
                          > output.patterns.alignmentSize}} :
           output' = IF fitting = {} THEN output
                     ELSE [output EXCEPT
                              !.patterns.bottomRight =
                                  alignments[CHOOSE i \in fitting :
                                                 \A j \in fitting : i <= j].location,
                              !.patterns.alignmentSize =
                                  alignments[CHOOSE i \in fitting :
                                                 \A j \in fitting : i <= j].size]
    /\ pc' = "transform"
    /\ UNCHANGED <<payload, ecLevel, encoded, received, decoded, input>>

\* TransformationMatrix: three rows of three entries, A[i][j] of the code being
\* A[i + 1][j + 1].  The entries are kept as integers: a matrix stands for all its
\* nonzero multiples (homogeneous coordinates), the quotients of
\* PerspectiveTransform.transform being the same for each of them.
RECURSIVE gcd(_, _)
gcd(a, b) == IF b = 0 THEN Abs(a) ELSE gcd(b, a % Abs(b))

\* The matrix divided by the greatest common divisor of its entries.
lowestTerms(A) ==
    IF \A i, j \in 1..3 : A[i][j] = 0 THEN A
    ELSE Array([i \in 1..3 |-> Array([j \in 1..3 |->
             A[i][j] \div gcd(gcd(gcd(gcd(A[1][1], A[1][2]), gcd(A[1][3], A[2][1])),
                                  gcd(gcd(A[2][2], A[2][3]), gcd(A[3][1], A[3][2]))),
                              A[3][3])])])

\* The rows (or columns) left when row (or column) k is skipped.
others(k) == IF k = 1 THEN <<2, 3>> ELSE IF k = 2 THEN <<1, 3>> ELSE <<1, 2>>

cofactor(A) ==
    Array([i \in 1..3 |-> Array([j \in 1..3 |->
        (IF (i + j) % 2 = 0 THEN 1 ELSE -1)
        * (A[others(i)[1]][others(j)[1]] * A[others(i)[2]][others(j)[2]]
           - A[others(i)[1]][others(j)[2]] * A[others(i)[2]][others(j)[1]])])])

transpose(A) == Array([j \in 1..3 |-> Array([i \in 1..3 |-> A[i][j]])])

adjugate(A) == transpose(cofactor(A))

times(A, B) ==
    Array([i \in 1..3 |-> Array([j \in 1..3 |->
        A[i][1] * B[1][j] + A[i][2] * B[2][j] + A[i][3] * B[3][j]])])

dotColumn(A, col, other) ==
    A[1][col + 1] * other[1] + A[2][col + 1] * other[2] + A[3][col + 1] * other[3]

\* unitSquareToQuadrilateralMatrix with every entry multiplied by its denominator
\* dx1 * dy2 - dx2 * dy1, in lowest terms.
unitSquareToQuadrilateralMatrix(p0, p1, p2, p3) ==
    LET dx1 == p1.x - p2.x
        dx2 == p3.x - p2.x
        dx3 == p0.x - p1.x + p2.x - p3.x
        dy1 == p1.y - p2.y
        dy2 == p3.y - p2.y
        dy3 == p0.y - p1.y + p2.y - p3.y
        denominator == dx1 * dy2 - dx2 * dy1
        a02 == dx3 * dy2 - dx2 * dy3
        a12 == dx1 * dy3 - dx3 * dy1
    IN  lowestTerms(<< <<(p1.x - p0.x) * denominator + a02 * p1.x,
                         (p1.y - p0.y) * denominator + a02 * p1.y, a02>>,
                       <<(p3.x - p0.x) * denominator + a12 * p3.x,
                         (p3.y - p0.y) * denominator + a12 * p3.y, a12>>,
                       <<p0.x * denominator, p0.y * denominator, denominator>> >>)

quadrilateralToUnitSquareMatrix(p0, p1, p2, p3) ==
    lowestTerms(adjugate(unitSquareToQuadrilateralMatrix(p0, p1, p2, p3)))

\* The matrix of new PerspectiveTransform(srcCorners, distCorners).
PerspectiveTransform(srcCorners, distCorners) ==
    lowestTerms(times(quadrilateralToUnitSquareMatrix(srcCorners[1], srcCorners[2],
                                                      srcCorners[3], srcCorners[4]),
                      unitSquareToQuadrilateralMatrix(distCorners[1], distCorners[2],
                                                      distCorners[3], distCorners[4])))

\* Math.round(num / den) for den of either sign.
roundQuotient(num, den) ==
    IF den > 0 THEN (2 * num + den) \div (2 * den)
    ELSE (2 * (0 - num) - den) \div (2 * (0 - den))

\* The source point of destination point (x, y): PerspectiveTransform.transform and
\* the two Math.round of CodeTransform.transform.  A denominator of zero gives no
\* number, hence no cell of the source matrix: the point (-1, -1) stands for it.
srcPoint(mat, x, y) ==
    IF dotColumn(mat, 2, <<x, y, 1>>) = 0 THEN [x |-> -1, y |-> -1]
    ELSE [x |-> roundQuotient(dotColumn(mat, 0, <<x, y, 1>>), dotColumn(mat, 2, <<x, y, 1>>)),
          y |-> roundQuotient(dotColumn(mat, 1, <<x, y, 1>>), dotColumn(mat, 2, <<x, y, 1>>))]

\* The side of the rectified matrix.
dimensionOf(patterns) ==
    (distance(patterns.topLeft, patterns.topRight)
     + distance(patterns.topLeft, patterns.bottomLeft) + 100) \div 200

\* The transformer of CodeTransform.transform.
transformerOf(patterns, dimension) ==
    PerspectiveTransform(<<[x |-> dimension - 1, y |-> 0], [x |-> 0, y |-> 0],
                           [x |-> 0, y |-> dimension - 1],
                           [x |-> dimension - 1, y |-> dimension - 1]>>,
                         <<patterns.topRight, patterns.topLeft,
                           patterns.bottomLeft, patterns.bottomRight>>)

Least(S) == CHOOSE n \in S : \A m \in S : n <= m

Greatest(S) == CHOOSE n \in S : \A m \in S : n >= m

\* The source coordinates that the two loops of CodeTransform.transform hand to
\* srcMatrix.get: their number and the least rectangle that holds them.
lookupsOf(mat, dimension) ==
    LET points == {srcPoint(mat, x, y) : x \in 0..(dimension - 1), y \in 0..(dimension - 1)}
    IN  [dimension |-> dimension,
         min |-> [x |-> Least({p.x : p \in points}), y |-> Least({p.y : p \in points})],
         max |-> [x |-> Greatest({p.x : p \in points}),
                  y |-> Greatest({p.y : p \in points})]]

\* CodeTransform.transform, which has no throw of its own: BitMatrix.get checks no
\* bound.  The bits of the rectified matrix are not part of the state, the source
\* coordinates that were looked up are.
Transform ==
    /\ pc = "transform"
    /\ \E dimension \in {dimensionOf(output.patterns)} :
       \E mat \in {transformerOf(output.patterns, dimension)} :
       \E lookups \in {lookupsOf(mat, dimension)} :
           output' = [output EXCEPT !.stages = Append(@, "transform"),
                                    !.lookups = lookups]
    /\ pc' = "extract"
    /\ UNCHANGED <<payload, ecLevel, encoded, received, decoded, input>>

\* Extractor.extract: it returns or throws one of its errors.
Extract ==
    /\ pc = "extract"
    /\ \E err \in {"", "IChing code must be a square!", "No valid finder patterns found!"} :
           /\ output' = [output EXCEPT !.err = err, !.stages = Append(@, "extract")]
           /\ pc' = IF err = "" THEN "content" ELSE "thrown"
    /\ UNCHANGED <<payload, ecLevel, encoded, received, decoded, input>>

\* Decoder.decode of the extracted symbols: it returns or throws.
DecodeContent ==
    /\ pc = "content"
    /\ \E err \in {"", "Invalid IChing code!"} :
           /\ output' = [output EXCEPT !.err = err, !.stages = Append(@, "decode")]
           /\ pc' = IF err = "" THEN "returned" ELSE "thrown"
    /\ UNCHANGED <<payload, ecLevel, encoded, received, decoded, input>>

DecodeSpec ==
    DecodeInit /\ [][Options \/ Binarize \/ Threshold \/ ScanRow \/ SelectFinders
                         \/ SelectAlignment \/ Transform \/ Extract \/ DecodeContent]_vars

(***************************************************************************)
(* PatternLocator.locate on its own: the scan of a small matrix, row by    *)
(* row, over its whole area.                                               *)
(***************************************************************************)
MaxWidth == 5

MaxHeight == 3

ScanInit ==
    /\ pc = "scan"
    /\ Idle
    /\ input \in {[matrix |-> Array([y \in 1..MaxHeight |-> Array(rows[y])]),
                   ratios |-> ratios] :
                     rows \in [1..MaxHeight -> [1..MaxWidth -> {0, 1}]],
                     ratios \in {FINDER_RATIOS, ALIGNMENT_RATIOS}}
    /\ output = [binarizedMatrix |-> input.matrix,
                 scan |-> scanFrom(input.ratios, [x |-> 0, y |-> 0],
                              [x |-> MaxWidth, y |-> MaxHeight])]

ScanSpec == ScanInit /\ [][ScanRow]_vars

(***************************************************************************)
(* Writer: the rendering of a code as the sequence of the writes into its  *)
(* BitMatrix, each a rectangle of pixels x1..x2 by y1..y2 set to a colour. *)
(* A pixel holds the colour of the last write that covers it, or 0.        *)
(***************************************************************************)
UNIT_DIM == 2

BITS_PER_SYMBOL == 6

SYMBOL_DIM == 22

GAP_DIM == 6

BIT_ZERO_OFFSET == 9

BIT_ZERO_WIDTH == 4

FINDER_OUTER_RADIUS == 11

QUIET_ZONE == 22

\* fillRect: the two loops run only for a positive width and height.
fillRect(x, y, width, height, color) ==
    IF width <= 0 \/ height <= 0 THEN <<>>
    ELSE <<[x1 |-> x, x2 |-> x + width - 1, y1 |-> y, y2 |-> y + height - 1,
            color |-> color]>>

fillHorizontalLine(x1, x2, y, color) ==
    IF x1 > x2 THEN <<>>
    ELSE <<[x1 |-> x1, x2 |-> x2, y1 |-> y, y2 |-> y, color |-> color]>>

fillSymmetricOctant(c, x, y, color) ==
    fillHorizontalLine(c.x - x, c.x + x, c.y + y, color)
        \o fillHorizontalLine(c.x - x, c.x + x, c.y - y, color)
        \o fillHorizontalLine(c.x - y, c.x + y, c.y + x, color)
        \o fillHorizontalLine(c.x - y, c.x + y, c.y - x, color)

\* The loop of fillCircle from the state (x, y, dx, dy, err) on.
RECURSIVE circleLoop(_, _, _, _, _, _, _, _)
circleLoop(c, color, x, y, dx, dy, err, writes) ==
    IF x < y \/ Len(writes) < 0 THEN writes
    ELSE IF 2 * (err + dy) + dx > 0
    THEN circleLoop(c, color, x - 1, y + 1, dx + 2, dy + 2, err + dy + dx,
             writes \o fillSymmetricOctant(c, x, y, color))
    ELSE circleLoop(c, color, x, y + 1, dx, dy + 2, err + dy,
             writes \o fillSymmetricOctant(c, x, y, color))

\* fillCircle with the radius already rounded; the centres the Writer passes are
\* integers.
fillCircle(c, r, color) == circleLoop(c, color, r, 0, 1 - r * 2, 1, 0, <<>>)

\* Math.round(FINDER_OUTER_RADIUS * sevenths / 7 * scale).
finderRadius(sevenths, scale) ==
    (2 * FINDER_OUTER_RADIUS * sevenths * scale + 7) \div 14

drawFinderPattern(centre, scale) ==
    fillCircle(centre, finderRadius(7, scale), 1)
        \o fillCircle(centre, finderRadius(5, scale), 0)
        \o fillCircle(centre, finderRadius(3, scale), 1)

drawAlignmentPattern(centre, scale) ==
    fillCircle(centre, finderRadius(5, scale), 1)
        \o fillCircle(centre, finderRadius(3, scale), 0)

\* One pass of the loop over the bits in drawSymbol: the bar at (x, y).
drawBit(x, y, zero, scale, roundEdges) ==
    LET bitWidth == SYMBOL_DIM * scale
        bitHeight == UNIT_DIM * scale
        zeroOffset == BIT_ZERO_OFFSET * scale
        zeroWidth == BIT_ZERO_WIDTH * scale
        edgeRadius == (bitHeight \div 2) - 1
    IN  fillRect(x + edgeRadius, y, bitWidth - 2 * edgeRadius, bitHeight, 1)
        \o (IF roundEdges
            THEN fillCircle([x |-> x + edgeRadius, y |-> y + edgeRadius], edgeRadius, 1)
                 \o fillCircle([x |-> x + edgeRadius, y |-> y + edgeRadius + 1],
                        edgeRadius, 1)
                 \o fillCircle([x |-> x + bitWidth - edgeRadius, y |-> y + edgeRadius],
                        edgeRadius, 1)
                 \o fillCircle([x |-> x + bitWidth - edgeRadius, y |-> y + edgeRadius + 1],
                        edgeRadius, 1)
            ELSE fillRect(x, y, edgeRadius, bitHeight, 1)
                 \o fillRect(x + bitWidth - edgeRadius, y, edgeRadius, bitHeight, 1))
        \o (IF ~zero THEN <<>>
            ELSE fillRect(x + zeroOffset - edgeRadius, y, zeroWidth + 2 * edgeRadius,
                     bitHeight, 0)
                 \o (IF roundEdges
                     THEN fillCircle([x |-> x + zeroOffset - edgeRadius,
                                      y |-> y + edgeRadius], edgeRadius, 1)
                          \o fillCircle([x |-> x + zeroOffset - edgeRadius,
                                         y |-> y + edgeRadius + 1], edgeRadius, 1)
                          \o fillCircle([x |-> x + zeroOffset + zeroWidth + edgeRadius,
                                         y |-> y + edgeRadius], edgeRadius, 1)
                          \o fillCircle([x |-> x + zeroOffset + zeroWidth + edgeRadius,
                                         y |-> y + edgeRadius + 1], edgeRadius, 1)
                     ELSE fillRect(x + zeroOffset - edgeRadius, y, edgeRadius, bitHeight, 1)
                          \o fillRect(x + zeroOffset + zeroWidth, y, edgeRadius,
                                 bitHeight, 1)))

\* startY of drawSymbol for the row, advanced by two bar heights a bit.
barTop(row, bit, scale, pad) ==
    (row * (SYMBOL_DIM + GAP_DIM) + QUIET_ZONE + FINDER_OUTER_RADIUS * 2) * scale + pad
        + bit * UNIT_DIM * scale * 2

\* (mask & (1 << bit)) === 0
bitIsZero(mask, bit) == (mask \div (2 ^ bit)) % 2 = 0

\* drawSymbol(row, col, mask) from the bit on: y advances by two bar heights a bit.
RECURSIVE drawSymbol(_, _, _, _, _, _, _, _)
drawSymbol(row, col, mask, scale, pad, roundEdges, bit, writes) ==
    IF bit >= BITS_PER_SYMBOL \/ Len(writes) < 0 THEN writes
    ELSE drawSymbol(row, col, mask, scale, pad, roundEdges, bit + 1,
             writes \o drawBit(
                 (col * (SYMBOL_DIM + GAP_DIM) + QUIET_ZONE + FINDER_OUTER_RADIUS * 2)
                     * scale + pad,
                 barTop(row, bit, scale, pad),
                 bitIsZero(mask, bit), scale, roundEdges))

\* The value render draws at grid row i, column j: data[i * codeSize + j].
symbolAt(code, i, j) == code.data[i * code.size + j + 1]

\* The two loops of render over the symbols, from symbol k = i * codeSize + j on.
RECURSIVE drawSymbols(_, _, _, _, _, _)
drawSymbols(code, scale, pad, roundEdges, k, writes) ==
    IF k >= code.size * code.size \/ Len(writes) < 0 THEN writes
    ELSE drawSymbols(code, scale, pad, roundEdges, k + 1,
             drawSymbol(k \div code.size, k % code.size,
                 symbolAt(code, k \div code.size, k % code.size), scale, pad,
                 roundEdges, 0, writes))

\* render after the check of the scale: the patterns, then the symbols.
renderScaled(code, resolution, roundEdges, scale, pad) ==
    LET finderOffset == (QUIET_ZONE + FINDER_OUTER_RADIUS) * scale + pad
    IN  [err |-> "", scale |-> scale, pad |-> pad,
         writes |-> drawSymbols(code, scale, pad, roundEdges, 0,
             drawFinderPattern([x |-> finderOffset, y |-> finderOffset], scale)
             \o drawFinderPattern([x |-> resolution - finderOffset, y |-> finderOffset],
                    scale)
             \o drawFinderPattern([x |-> finderOffset, y |-> resolution - finderOffset],
                    scale)
             \o drawAlignmentPattern([x |-> resolution - finderOffset,
                                      y |-> resolution - finderOffset], scale))]

\* The minimum image dimension of render.
baseDimension(codeSize) ==
    codeSize * SYMBOL_DIM + (codeSize - 1) * GAP_DIM
        + (FINDER_OUTER_RADIUS * 2 + QUIET_ZONE) * 2

\* render with the comparison of the resolution itself in place of the scale.
renderAboveBase(code, resolution, roundEdges) ==
    IF resolution <= baseDimension(code.size)
    THEN [err |-> "Resolution is too small!", scale |-> 0, pad |-> 0, writes |-> <<>>]
    ELSE renderScaled(code, resolution, roundEdges,
             resolution \div baseDimension(code.size),
             (resolution - baseDimension(code.size)
                 * (resolution \div baseDimension(code.size))) \div 2)

render(code, resolution, roundEdges) ==
    IF resolution \div baseDimension(code.size) < 1
    THEN [err |-> "Resolution is too small!", scale |-> 0, pad |-> 0, writes |-> <<>>]
    ELSE renderScaled(code, resolution, roundEdges,
             resolution \div baseDimension(code.size),
             (resolution - baseDimension(code.size)
                 * (resolution \div baseDimension(code.size))) \div 2)

MaxCodeSize == 3

MinResolution == 100

MaxResolution == 340

\* The call: a code of side n whose symbol k holds (21 * k + shift) % 64, the
\* resolution and roundEdges of the constructor.
WriterInit ==
    /\ pc = "writer"
    /\ Idle
    /\ input \in {[code |-> [size |-> n,
                             data |-> Array([k \in 1..(n * n) |-> (21 * k + shift) % 64])],
                   resolution |-> resolution, roundEdges |-> roundEdges] :
                     n \in 1..MaxCodeSize, shift \in {0, 63},
                     resolution \in MinResolution..MaxResolution,
                     roundEdges \in BOOLEAN}
    /\ output = NoResult

Render ==
    /\ pc = "writer"
    /\ output' = render(input.code, input.resolution, input.roundEdges)
    /\ pc' = "rendered"
    /\ UNCHANGED <<payload, ecLevel, encoded, received, decoded, input>>

WriterSpec == WriterInit /\ [][Render]_vars

(***************************************************************************)
(* Extractor.extract on an ideal rendering: the image between the centres  *)
(* of the finder patterns of what render draws at a whole scale with no    *)
(* pad, where a horizontal line of a column is a line of a one-bit or of a *)
(* zero-bit when it lies in a bar drawSymbol draws for such a bit, and an  *)
(* invalid line otherwise. The scale estimated from the finder patterns is *)
(* the scale of the rendering. The scan loop is taken one line at a time.  *)
(***************************************************************************)
\* The two thresholds of the scan loop, in hundredths.
GAP_DIM_THRESHOLD == 67

UNIT_DIM_THRESHOLD == 50

LINE_STATE_INVALID == -1

LINE_STATE_ZERO == 0

LINE_STATE_ONE == 1

\* Math.round(num / den) for num >= 0 and den > 0.
roundDiv(num, den) == (2 * num + den) \div (2 * den)

\* The side of the image: the distance between the centres of two finder patterns
\* that render draws for a resolution of baseDimension * scale.
idealDimension(codeSize, scale) ==
    (baseDimension(codeSize) - 2 * (QUIET_ZONE + FINDER_OUTER_RADIUS)) * scale

\* The bars of the rendering that hold line y of the image, as <<row, bit>>.
barsAt(codeSize, scale, y) ==
    {b \in (0..(codeSize - 1)) \X (0..(BITS_PER_SYMBOL - 1)) :
        /\ y + (QUIET_ZONE + FINDER_OUTER_RADIUS) * scale >= barTop(b[1], b[2], scale, 0)
        /\ y + (QUIET_ZONE + FINDER_OUTER_RADIUS) * scale
               < barTop(b[1], b[2], scale, 0) + UNIT_DIM * scale}

\* What getHorizontalState returns for line y of column col of the ideal rendering.
idealLineState(code, scale, col, y) ==
    IF barsAt(code.size, scale, y) = {} THEN LINE_STATE_INVALID
    ELSE LET b == CHOOSE b \in barsAt(code.size, scale, y) : TRUE
         IN  IF bitIsZero(symbolAt(code, b[1], col), b[2]) THEN LINE_STATE_ZERO
             ELSE LINE_STATE_ONE

\* mask &= ~((1 - oldState) << bitsFound)
clearFoundBit(mask, oldState, bitsFound) ==
    IF oldState = LINE_STATE_ZERO /\ ~bitIsZero(mask, bitsFound)
    THEN mask - 2 ^ bitsFound
    ELSE mask

\* The bookkeeping at the head of the loop over the rows.
beginSymbol(o, height) ==
    [o EXCEPT !.endOfSymbol = FALSE,
              !.oldState = LINE_STATE_INVALID,
              !.oldStateCount = 1,
              !.oldStateStartY = o.scanY,
              !.bitsFound = 0,
              !.mask = 2 ^ BITS_PER_SYMBOL - 1,
              !.symbolY1 = o.estimateY1,
              !.searchYLimit = Min(height, o.estimateY2 + GAP_DIM * o.scale)]

\* The head of the loop over the columns, then the first symbol of the column.
beginColumn(o, col, height) ==
    beginSymbol([o EXCEPT !.col = col,
                          !.row = 0,
                          !.estimateY1 = FINDER_OUTER_RADIUS * o.scale,
                          !.estimateY2 = FINDER_OUTER_RADIUS * o.scale + SYMBOL_DIM * o.scale,
                          !.scanY = Max(0, FINDER_OUTER_RADIUS * o.scale - UNIT_DIM * o.scale)],
                height)

\* The first branch of the loop body: the same state again, or a different one.
afterState(o, newState) ==
    IF newState = o.oldState
    THEN [o EXCEPT !.oldStateCount = o.oldStateCount + 1]
    ELSE IF /\ o.oldState # LINE_STATE_INVALID
            /\ 100 * o.oldStateCount > UNIT_DIM_THRESHOLD * UNIT_DIM * o.scale
         THEN [o EXCEPT !.mask = clearFoundBit(o.mask, o.oldState, o.bitsFound),
                        !.bitsFound = o.bitsFound + 1,
                        !.symbolY1 = IF o.bitsFound + 1 = 1 THEN o.oldStateStartY
                                     ELSE o.symbolY1,
                        !.oldState = newState,
                        !.oldStateCount = 1,
                        !.oldStateStartY = o.scanY]
         ELSE [o EXCEPT !.oldState = newState,
                        !.oldStateCount = 1,
                        !.oldStateStartY = o.scanY]

\* The second branch: a gap inside the symbol is a missing bit, a gap after it ends
\* the symbol; then scanY++.
afterGap(o) ==
    IF /\ o.oldState = LINE_STATE_INVALID
       /\ 100 * o.oldStateCount > GAP_DIM_THRESHOLD * GAP_DIM * o.scale
    THEN IF o.oldStateStartY <= o.estimateY2 - UNIT_DIM * o.scale
         THEN [o EXCEPT !.bitsFound = o.bitsFound + 1,
                        !.symbolY1 = IF o.bitsFound + 1 = 1
                                     THEN o.oldStateStartY + UNIT_DIM * o.scale
                                     ELSE o.symbolY1,
                        !.oldStateStartY = o.scanY + 1,
                        !.oldStateCount = 1,
                        !.scanY = o.scanY + 1]
         ELSE [o EXCEPT !.endOfSymbol = TRUE, !.scanY = o.scanY + 1]
    ELSE [o EXCEPT !.scanY = o.scanY + 1]

\* The store with the roles of row and col exchanged.
storeSymbolByColumn(data, row, col, cols, mask) ==
    [data EXCEPT ![col * cols + row + 1] = mask]

\* data[row * cols + col] = mask
storeSymbol(data, row, col, cols, mask) == [data EXCEPT ![row * cols + col + 1] = mask]

\* After the scan loop: scanY and symbolY2, the symbol stored, the estimates for the
\* next symbol, row++.
afterSymbol(o, symbolY2) ==
    [o EXCEPT !.scanY = IF o.scanY = o.searchYLimit THEN o.scanY - UNIT_DIM * o.scale
                        ELSE o.scanY,
              !.data = storeSymbol(o.data, o.row, o.col, o.size, o.mask),
              !.estimateY1 = symbolY2 + GAP_DIM * o.scale,
              !.estimateY2 = symbolY2 + GAP_DIM * o.scale + symbolY2 - o.symbolY1,
              !.row = o.row + 1]

MaxExtractSize == 2

MaxScale == 2

\* The code rendered and the scale of the rendering; symbol k holds (21 * k + shift) % 64.
ExtractInit ==
    /\ pc = "extractor"
    /\ Idle
    /\ input \in {[code |-> [size |-> n,
                             data |-> Array([k \in 1..(n * n) |-> (21 * k + shift) % 64])],
                   scale |-> scale] :
                     n \in 1..MaxExtractSize, shift \in {0, 20, 63}, scale \in 1..MaxScale}
    /\ output = NoResult

\* extract up to the scan loop of the first symbol: cols and rows, the check of the
\* square, the scale from the dimensions, the data array.
ExtractBegin ==
    /\ pc = "extractor"
    /\ \E cols \in {roundDiv(idealDimension(input.code.size, input.scale)
                                + GAP_DIM * input.scale - SYMBOL_DIM * input.scale,
                             (GAP_DIM + SYMBOL_DIM) * input.scale)} :
           output' = beginColumn(
               [err |-> "", size |-> cols,
                scale |-> (2 * idealDimension(input.code.size, input.scale))
                              \div (2 * ((cols + 1) * SYMBOL_DIM + (cols - 1) * GAP_DIM)),
                data |-> Zeros(cols * cols), col |-> 0, row |-> 0,
                estimateY1 |-> 0, estimateY2 |-> 0, scanY |-> 0, endOfSymbol |-> FALSE,
                oldState |-> LINE_STATE_INVALID, oldStateCount |-> 1, oldStateStartY |-> 0,
                bitsFound |-> 0, mask |-> 0, symbolY1 |-> 0, searchYLimit |-> 0],
               0, idealDimension(input.code.size, input.scale))
    /\ pc' = "line"
    /\ UNCHANGED <<payload, ecLevel, encoded, received, decoded, input>>

\* One pass of the scan loop.
ScanLine ==
    /\ pc = "line"
    /\ output.scanY < output.searchYLimit
    /\ ~output.endOfSymbol
    /\ \E o \in {afterState(output,
                     idealLineState(input.code, input.scale, output.col, output.scanY))} :
           output' = afterGap(o)
    /\ UNCHANGED <<pc, payload, ecLevel, encoded, received, decoded, input>>

\* The scan loop is left: the symbol is stored; then the next symbol of the column,
\* the next column, or the return.
EndSymbol ==
    /\ pc = "line"
    /\ ~(output.scanY < output.searchYLimit /\ ~output.endOfSymbol)
    /\ \E o \in {afterSymbol(output,
                     IF output.scanY = output.searchYLimit THEN output.estimateY2
                     ELSE output.oldStateStartY)} :
           IF o.row < o.size
           THEN /\ output' = beginSymbol(o, idealDimension(input.code.size, input.scale))
                /\ pc' = pc
           ELSE IF o.col + 1 < o.size
           THEN /\ output' = beginColumn(o, o.col + 1,
                                 idealDimension(input.code.size, input.scale))
                /\ pc' = pc
           ELSE /\ output' = o
                /\ pc' = "extracted"
    /\ UNCHANGED <<payload, ecLevel, encoded, received, decoded, input>>

ExtractSpec == ExtractInit /\ [][ExtractBegin \/ ScanLine \/ EndSymbol]_vars

(***************************************************************************)
(* Terms of the properties.                                                *)
(***************************************************************************)
\* The four preset error correction levels.
Presets == {EC_NONE, EC_LOW, EC_MEDIUM, EC_HIGH}

\* 2 + |payload| + 2 * ceil(|payload| * ecLevel) of the encoded input.
MinSize == 2 + Len(payload) + 2 * CeilDiv(Len(payload) * ecLevel, 100)

\* Every character of the payload, upper-cased, is a character of the alphabet.
InAlphabet ==
    \A i \in 1..Len(payload) :
        \E k \in 1..Len(ALPHABET) : ALPHABET[k] = toUpperCase(payload)[i]

\* The parity count of the encoder's codeword.
Parity == ClearLowBit(Len(encoded.data) - OFFSET - Len(payload))

\* The decoder returned the upper-cased payload.
Original == decoded.err = "" /\ decoded.data = toUpperCase(payload)

\* The full result the decoder owes for the encoded payload.
Expected ==
    [err |-> "", version |-> VERSION, size |-> encoded.size,
     data |-> toUpperCase(payload), patterns |-> "null"]

\* A decode of a codeword with some symbols changed, the changes within capacity.
Within == pc = "decoded" /\ Changed # {} /\ 2 * Cardinality(Changed) <= Parity

\* A decode of a codeword with parity/2 + 1 .. parity + |payload| symbols changed,
\* all at index 2 or later.
Beyond ==
    /\ pc = "decoded"
    /\ 2 * Cardinality(Changed) > Parity
    /\ Cardinality(Changed) <= Parity + Len(payload)
    /\ \A i \in Changed : i > OFFSET

\* A decode of a codeword without zero symbols after the metadata whose first
\* e symbols from index 2 were overwritten with zero, parity/2 < e <= parity + |payload|.
ZeroForced ==
    /\ Beyond
    /\ \A i \in (OFFSET + 1)..Len(encoded.data) : encoded.data[i] # 0
    /\ Changed = (OFFSET + 1)..(OFFSET + Cardinality(Changed))
    /\ \A i \in Changed : received[i] = 0

\* The number of characters in which the returned payload differs from the
\* characters of the received payload symbols.
Corrections ==
    Cardinality({i \in 1..Len(decoded.data) :
                    decoded.data[i] # ALPHABET[received[OFFSET + i] + 1]})

(***************************************************************************)
(* Properties.                                                             *)
(***************************************************************************)
\* C1: every payload of alphabet characters with at least one character, at a
\* preset level within the capacity of 64, is encoded, and decoding the
\* unmodified data array returns the upper-cased payload, version 1, the
\* encoder's size and patterns = null.
C1_RoundTrip ==
    (Len(payload) >= 1 /\ InAlphabet /\ ecLevel \in Presets /\ MinSize <= MAX_SIZE)
        => /\ pc # "rejected"
           /\ (pc = "decoded" /\ Changed = {}) => decoded = Expected

\* C2: with parity k >= 2, replacing at most k/2 symbols anywhere from index 2
\* up to and including the last index still decodes to the upper-cased payload.
C2_CorrectsWithinCapacity ==
    (Within /\ Parity >= 2 /\ \A i \in Changed : i > OFFSET) => Original

\* C3 as claimed: changes within capacity that include the version symbol or
\* the payload-length symbol are corrected, and the original payload returned.
C3_MetadataCorrected ==
    (Within /\ Changed \cap (1..OFFSET) # {}) => Original

\* C3 amended: changes within capacity that include a metadata symbol are never
\* corrected: a changed version symbol raises "Invalid IChing code!"; a changed
\* length symbol raises "Invalid IChing code!" or "Invalid IChing Code!", or a
\* payload of the changed length is returned, never the original payload.
C3_MetadataErrorsDetected ==
    (Within /\ Changed \cap (1..OFFSET) # {})
        => /\ ~Original
           /\ 1 \in Changed => decoded.err = "Invalid IChing code!"
           /\ \/ decoded.err \in {"Invalid IChing code!", "Invalid IChing Code!"}
              \/ decoded.err = "" /\ Len(decoded.data) = received[2]

\* A length symbol changed within capacity, restored by the correction and
\* caught by the comparison of the metadata symbols.
C3_Witness ==
    /\ Within
    /\ Changed = {2}
    /\ decoded.err = "Invalid IChing Code!"

C6_SizeLaw ==
    (pc \in {"encoded", "decoded"})
        => /\ encoded.size * encoded.size >= MinSize
           /\ (encoded.size - 1) * (encoded.size - 1) < MinSize
           /\ Len(encoded.data) = encoded.size * encoded.size

\* A 12-character payload at ecLevel 0.25 encoded with size 5.
C6_Witness ==
    /\ pc = "encoded"
    /\ payload = validPayload
    /\ ecLevel = EC_HIGH
    /\ encoded.size = 5

\* C7: every encoder result holds VERSION, the payload length, the alphabet
\* indices of the payload characters, at most one zero symbol of padding and an
\* even number of parity symbols that make the whole array a Reed-Solomon
\* codeword (it evaluates to 0 at a^0 .. a^(parity - 1)); its length is
\* size * size and every element is in 0..63.
C7_Layout ==
    (pc \in {"encoded", "decoded"})
        => LET data == encoded.data
               padding == Len(data) - OFFSET - Len(payload) - Parity
           IN  /\ data[1] = VERSION
               /\ data[2] = Len(payload)
               /\ \A i \in 1..Len(payload) :
                      /\ data[OFFSET + i] \in 0..(Len(ALPHABET) - 1)
                      /\ ALPHABET[data[OFFSET + i] + 1] = toUpperCase(payload)[i]
               /\ padding \in {0, 1}
               /\ \A i \in 1..padding : data[OFFSET + Len(payload) + i] = 0
               /\ Parity % 2 = 0
               /\ \A j \in 0..(Parity - 1) : evaluateAt(data, exp(j)) = 0
               /\ Len(data) = encoded.size * encoded.size
               /\ \A i \in 1..Len(data) : data[i] \in 0..(size - 1)

\* A result with one symbol of padding and ten parity symbols.
C7_Witness ==
    /\ pc = "encoded"
    /\ payload = validPayload
    /\ ecLevel = EC_HIGH
    /\ Len(encoded.data) = 25
    /\ encoded.data[15] = 0
    /\ Parity = 10
    /\ \E i \in 16..25 : encoded.data[i] # 0

C9_RejectionOrder ==
    (pc # "start")
        => /\ Len(payload) = 0 => encoded.err = "Empty payload!"
           /\ (Len(payload) > 0 /\ (ecLevel < 0 \/ ecLevel > 100))
                  => encoded.err =
                         "Error correction percentage must be a value between 0 - 1!"
           /\ (Len(payload) > 0 /\ ecLevel \in 0..100 /\ MinSize > MAX_SIZE)
                  => encoded.err =
                         "Payload and error correction level combination is too big!"
           /\ (Len(payload) > 0 /\ ecLevel \in 0..100 /\ MinSize <= MAX_SIZE
                  /\ ~InAlphabet)
                  => encoded.err = "Invalid character in payload!"
           /\ encoded.err # "" => (pc = "rejected" /\ encoded.data = <<>>)

\* The empty payload with ecLevel -0.1 rejected as empty.
C9_Witness ==
    /\ pc = "rejected"
    /\ payload = <<>>
    /\ ecLevel = -10
    /\ encoded.err = "Empty payload!"

\* C10: the encoder accepts every character of the 64-character alphabet and
\* maps it to its index in the alphabet string, and the decoder maps the symbol
\* back to the character at that index.
C10_AlphabetBijection ==
    (pc # "start" /\ Len(payload) = 1 /\ InAlphabet /\ ecLevel \in 0..100)
        => /\ encoded.err = ""
           /\ encoded.data[OFFSET + 1] \in 0..(Len(ALPHABET) - 1)
           /\ ALPHABET[encoded.data[OFFSET + 1] + 1] = toUpperCase(payload)[1]
           /\ (pc = "decoded" /\ Changed = {}) => decoded.data = toUpperCase(payload)

\* C11: multiply(x, mulInverse(x)) = 1 for every x in 1..63, and
\* multiply(divide(x, y), y) = x for every x in 0..63 and y in 1..63.
C11_InverseLaw ==
    (pc = "fieldDone")
        => /\ input.x # 0 => multiply(input.x, output.inverse) = 1
           /\ input.y # 0 => multiply(output.quotient, input.y) = input.x

\* The inverse and the quotient computed for a pair of non-zero elements, the
\* element whose log the table loop overwrites among them.
C11_Witness ==
    /\ pc = "fieldDone"
    /\ input = [x |-> 1, y |-> 3]
    /\ output.inverse = 1
    /\ multiply(output.quotient, 3) = 1

\* C12: multiply(x, add(y, z)) = add(multiply(x, y), multiply(x, z)) for all
\* x, y, z in 0..63.
C12_Distributivity ==
    (pc = "fieldDone")
        => \A z \in 0..(size - 1) :
               multiply(input.x, add(input.y, z)) =
                   add(output.product, multiply(input.x, z))

\* A product of two elements whose logs add up to more than size - 1.
C12_Witness ==
    /\ pc = "fieldDone"
    /\ input = [x |-> 33, y |-> 63]
    /\ log(input.x) + log(input.y) > size - 1
    /\ output.product # 0

\* C13: exp(log(x)) = x for every x in 1..63 and log(exp(i)) = i for every
\* exponent i in 0..62.
C13_LogExpInverse ==
    (pc = "fieldDone")
        => /\ input.x # 0 => exp(output.log) = input.x
           /\ input.x <= size - 2 => log(output.exp) = input.x

\* The dividend and the divisor of a finished dividePoly call.
Dividend == BinaryGFPoly(input.a)

Divisor == BinaryGFPoly(input.b)

Divided == pc = "polyDone" /\ output.op = "dividePoly" /\ ~isZero(Divisor)

\* C14: for every polynomial p and every non-zero divisor d, dividePoly returns
\* [quotient, remainder] with quotient * d + remainder = p.
C14_DivisionLaw ==
    Divided
        => /\ output.err = ""
           /\ addPoly(multiplyPoly(output.polys[1], Divisor), output.polys[2]) = Dividend

NormalForm(p) == Len(p) >= 1 /\ (p[1] = 0 => p = <<0>>)

\* C16: every BinaryGFPoly, constructed directly or returned by add, multiplyPoly,
\* multiplyScalar or dividePoly, has a non-zero leading coefficient unless it is the
\* single coefficient 0; isZero() holds exactly when all coefficients are zero; and
\* p.add(p) is the zero polynomial.
C16_NormalForm ==
    (pc = "polyDone" /\ output.err = "")
        => /\ \A i \in 1..Len(output.polys) :
                  /\ NormalForm(output.polys[i])
                  /\ isZero(output.polys[i])
                         <=> \A k \in 1..Len(output.polys[i]) : output.polys[i][k] = 0
           /\ (output.op = "add" /\ Dividend = Divisor) => output.polys[1] = <<0>>

\* A sum whose leading coefficients cancelled and were stripped.
C16_Witness ==
    /\ pc = "polyDone"
    /\ output.op = "add"
    /\ input = [a |-> <<1, 2, 1>>, b |-> <<1, 2, 2>>]
    /\ output.polys = <<(<<3>>)>>

\* C17: for data of length n >= 1 and parity count k >= 1, encode returns n + k
\* symbols whose first n are the data and whose polynomial is 0 at a^0 .. a^(k-1);
\* decode then computes the zero syndrome polynomial and returns the array unchanged;
\* for k = 0 encode returns the data unchanged.
C17_SystematicCodeword ==
    (pc \in {"rsEncoded", "rsDecoded"} /\ Len(input.data) >= 1)
        => /\ output.encoded.err = ""
           /\ input.ecSymbols = 0 => output.encoded.data = input.data
           /\ input.ecSymbols >= 1 =>
                  /\ Len(output.encoded.data) = Len(input.data) + input.ecSymbols
                  /\ SubSeq(output.encoded.data, 1, Len(input.data)) = input.data
                  /\ \A i \in 0..(input.ecSymbols - 1) :
                         evaluateAt(BinaryGFPoly(output.encoded.data), exp(i)) = 0
                  /\ pc = "rsDecoded" =>
                         /\ output.syndromes = <<0>>
                         /\ output.decoded = [err |-> "", data |-> output.encoded.data]

\* A decoded codeword whose parity is shorter than k once its leading zero is stripped.
C17_Witness ==
    /\ pc = "rsDecoded"
    /\ input = [data |-> <<2, 2, 2, 1>>, ecSymbols |-> 3]
    /\ output.encoded.data = <<2, 2, 2, 1, 0, 26, 25>>
    /\ output.syndromes = <<0>>
    /\ output.decoded.data = output.encoded.data

\* C18: for any three distinct points passed to assignFinders in any order,
\* cross(topRight - bottomLeft, topLeft - bottomLeft) <= 0.
C18_Orientation ==
    (pc = "assigned")
        => cross(vec(output.bottomLeft, output.topRight),
                 vec(output.bottomLeft, output.topLeft)) <= 0

\* Three points given anticlockwise, so that the second swap is made.
C18_Witness ==
    /\ pc = "assigned"
    /\ input = [a |-> [x |-> 0, y |-> 3], b |-> [x |-> 3, y |-> 0], c |-> [x |-> 3, y |-> 3]]
    /\ output.bottomLeft = input.b
    /\ output.topRight = input.a
    /\ output.topLeft = input.c

\* C19: assignFinders returns a permutation of its three input points in which
\* topRight and bottomLeft are a pair of maximum distance among the three pairs and
\* topLeft is the remaining point, for every input order and with ties.
C19_Diagonal ==
    (pc = "assigned")
        => /\ {output.bottomLeft, output.topRight, output.topLeft}
                  = {input.a, input.b, input.c}
           /\ sqDistance(output.bottomLeft, output.topRight)
                  >= sqDistance(output.bottomLeft, output.topLeft)
           /\ sqDistance(output.bottomLeft, output.topRight)
                  >= sqDistance(output.topRight, output.topLeft)

\* AC is longer than AB and BC is longer than both: the second condition decides.
C19_Witness ==
    /\ pc = "assigned"
    /\ sqDistance(input.a, input.c) > sqDistance(input.a, input.b)
    /\ sqDistance(input.b, input.c) > sqDistance(input.a, input.c)
    /\ output.topLeft = input.a

\* C20: a white image is rejected by the locator.  For an image without any mark,
\* decoded without inversion, of every accepted size: the binarized matrix has no black
\* pixel, the scan for finder patterns never holds a candidate, the only error decode
\* throws once the matrix is binarized is "Couldn't Locate Finder Patterns!", and
\* neither the search of the alignment pattern nor the transform, the extraction or
\* the decoding of the content is ever reached.
C20_WhiteImageRejected ==
    (/\ pc \in {"scan", "transform", "extract", "content", "returned", "thrown"}
     /\ input.image.marks = 0
     /\ input.inverted # "true"
     /\ output.binarizedMatrix # <<>>)
        => /\ \A y \in 1..Len(output.binarizedMatrix) :
                  \A x \in 1..Len(output.binarizedMatrix[y]) : output.binarizedMatrix[y][x] = 0
           /\ output.scan.ratios = FINDER_RATIOS
           /\ output.scan.locations = <<>>
           /\ output.finders = <<>>
           /\ pc \in {"scan", "thrown"}
           /\ pc = "thrown" => output.err = "Couldn't Locate Finder Patterns!"
           /\ output.stages = <<"binarize", "locate">>

C20_Witness ==
    /\ pc = "thrown"
    /\ input = [image |-> [width |-> BLOCK_SIZE + 1, height |-> BLOCK_SIZE, marks |-> 0,
                           length |-> 4 * (BLOCK_SIZE + 1) * BLOCK_SIZE],
                inverted |-> "undefined"]
    /\ output.scan.y >= BLOCK_SIZE
    /\ output.finders = <<>>
    /\ output.err = "Couldn't Locate Finder Patterns!"
    /\ output.stages = <<"binarize", "locate">>

\* C21: decode leaves the caller's buffer as it was.  Once decode has returned or
\* thrown, every pixel of data holds the red, green and blue byte it held before the
\* call, whatever options.inverted was.
C21_BufferPreserved ==
    (pc \in {"returned", "thrown"})
        => \A y \in 0..(input.image.height - 1) : \A x \in 0..(input.image.width - 1) :
               (IF output.negated THEN 255 - rgbAt(input.image, x, y)
                ELSE rgbAt(input.image, x, y)) = rgbAt(input.image, x, y)

\* C22: the validation of the content decoder.  Decoder.decode throws the error of its
\* entry checks, "Invalid IChing code!", which is thrown before the Reed-Solomon
\* decoder is made, and returns no payload, whenever the length of received is not a
\* perfect square, received[0] is not 1, received holds no received[1] from 1 to
\* length - 2 (it is 0, or received[1] + 2 is above the length); otherwise the result
\* is the one of the correction run with (length - 2 - received[1]) & ~1 parity
\* symbols.
C22_Validation ==
    (pc = "validated")
        => IF \/ \A s \in 0..Len(received) : s * s # Len(received)
              \/ Len(received) = 0
              \/ received[1] # 1
              \/ Len(received) < 2
              \/ received[2] = 0
              \/ received[2] + 2 > Len(received)
           THEN decoded.err = "Invalid IChing code!" /\ decoded.data = <<>>
           ELSE decoded = decodeCorrected(received, RoundSqrt(Len(received)), received[2],
                              correct(received,
                                  BitAnd(Len(received) - 2 - received[2], 62)))

\* C23: the scaling of the renderer.  For a code of side S the base dimension is
\* 28 * S + 82; render throws "Resolution is too small!" exactly when the resolution
\* is below the base; otherwise scale = floor(resolution / base) >= 1,
\* pad = floor((resolution - base * scale) / 2) >= 0, pad + base * scale <= resolution,
\* and every write of a finder, alignment or symbol pixel is inside the
\* resolution x resolution matrix.
C23_RendererScaling ==
    (pc = "rendered")
        => LET base == 28 * input.code.size + 82
           IN  /\ baseDimension(input.code.size) = base
               /\ output.err = "Resolution is too small!" <=> input.resolution < base
               /\ output.err # "Resolution is too small!" =>
                      /\ output.err = ""
                      /\ output.scale = input.resolution \div base
                      /\ output.scale >= 1
                      /\ output.pad = (input.resolution - base * output.scale) \div 2
                      /\ output.pad >= 0
                      /\ output.pad + base * output.scale <= input.resolution
                      /\ output.writes # <<>>
                      /\ \A k \in 1..Len(output.writes) :
                             /\ 0 <= output.writes[k].x1
                             /\ output.writes[k].x1 <= output.writes[k].x2
                             /\ output.writes[k].x2 < input.resolution
                             /\ 0 <= output.writes[k].y1
                             /\ output.writes[k].y1 <= output.writes[k].y2
                             /\ output.writes[k].y2 < input.resolution

C23_Witness ==
    /\ pc = "rendered"
    /\ input.code.size = 2
    /\ input.resolution = 283
    /\ input.roundEdges
    /\ output.err = ""
    /\ output.scale = 2
    /\ output.pad = 3
    /\ \E k \in 1..Len(output.writes) : output.writes[k].x2 = input.resolution - 48

\* C24: the cache of generators is consistent.  After any sequence of encode calls on
\* one encoder, every cached generators[d] is the monic polynomial of degree d whose
\* roots are alpha^0 .. alpha^(d-1), that is the product of the (x + alpha^i), with
\* generators[0] = 1; the entries stored before a call are the same after it; and the
\* generator a call with k parity symbols uses is the one a new encoder would use.
C24_GeneratorCache ==
    /\ output.generators[1] = <<1>>
    /\ \A d \in 0..(Len(output.generators) - 1) :
           /\ Len(output.generators[d + 1]) = d + 1
           /\ output.generators[d + 1][1] = 1
           /\ \A i \in 0..(d - 1) : evaluateAt(output.generators[d + 1], exp(i)) = 0
    /\ \A d \in 1..Len(output.previous) : output.generators[d] = output.previous[d]
    /\ output.generator # <<>> =>
           /\ output.generator = output.generators[input[Len(input)].ecSymbols + 1]
           /\ output.generator =
                  getGenerator(<<getOnePoly>>, input[Len(input)].ecSymbols)
                      [input[Len(input)].ecSymbols + 1]

C24_Witness ==
    /\ Len(input) = 3
    /\ input[1].ecSymbols = 4 /\ input[1].dataLength = 1
    /\ input[2].ecSymbols = 6 /\ input[2].dataLength = 1
    /\ input[3].ecSymbols = 2 /\ input[3].dataLength = 1
    /\ Len(output.generators) = 7
    /\ Len(output.previous) = 7
    /\ output.generator = <<1, 3, 2>>

\* C25: no pattern continues across rows.  Every row PatternLocator.locate scans
\* starts with an empty state, stateIdx = 0 and every run count 0, whatever the row
\* scanned before it ended with.
C25_RowsStartEmpty ==
    (pc = "scan" /\ output.scan.y < output.scan.endPoint.y)
        => /\ output.scan.stateIdx = 0
           /\ output.scan.state = Zeros(Len(output.scan.ratios))

\* C27: the encoder and the decoder agree on the parity count.  For every payload of
\* length L >= 1 and every ecLevel in [0, 1] with minSize = 2 + L + 2 * ceil(L * ecLevel)
\* at most 64, and S the side encode chooses, the number of parity symbols encode
\* appends is 2 * ceil(L * ecLevel) + ((S * S - minSize) & ~1), and it equals the
\* number the decoder derives from the codeword alone, (S * S - 2 - L) & ~1.
C27_ParityAgreement ==
    (pc = "sized" /\ ecLevel >= 0 /\ ecLevel <= 100 /\ MinSize <= 64)
        => /\ output.err = ""
           /\ output.ecSymbols =
                  2 * CeilDiv(Len(payload) * ecLevel, 100)
                      + BitAnd(output.size * output.size - MinSize, 126)
           /\ output.ecSymbols =
                  BitAnd(output.size * output.size - 2 - Len(payload), 126)
           /\ output.dataLength + output.ecSymbols = output.size * output.size

C27_Witness ==
    /\ pc = "sized"
    /\ Len(payload) = 5
    /\ ecLevel = 25
    /\ output = [err |-> "", size |-> 4, ecSymbols |-> 8, dataLength |-> 8]

\* C28: the threshold lookups stay inside the computed table.  For an image of width
\* W >= 80 and height H >= 80, calculateLocalMeanTable fills the cells (bx, by) with
\* 0 <= bx <= W - 80 and 0 <= by <= H - 80, the block origin binarize uses for every
\* pixel (x, y) is one of them, and each of them is the origin of some pixel; an image
\* with W < 80 or H < 80 is rejected before any lookup.
C28_LookupsInsideTable ==
    /\ (pc = "threshold")
           => /\ input.image.width >= BLOCK_SIZE
              /\ input.image.height >= BLOCK_SIZE
              /\ Len(output.T) = input.image.height - BLOCK_SIZE + 1
              /\ \A by \in 1..Len(output.T) :
                     Len(output.T[by]) = input.image.width - BLOCK_SIZE + 1
              /\ {blockOrigin(x, input.image.width) : x \in 0..(input.image.width - 1)}
                     = 0..(input.image.width - BLOCK_SIZE)
              /\ {blockOrigin(y, input.image.height) : y \in 0..(input.image.height - 1)}
                     = 0..(input.image.height - BLOCK_SIZE)
    /\ (input.image.width < BLOCK_SIZE \/ input.image.height < BLOCK_SIZE)
           => /\ pc \in {"decode", "binarize", "thrown"}
              /\ pc # "decode" => output.T = <<>> /\ output.binarizedMatrix = <<>>
              /\ pc = "thrown"
                     => output.err \in {"incorrect data length!", "Image is too small!"}

C28_Witness ==
    /\ pc = "threshold"
    /\ input.image.width = BLOCK_SIZE + 1
    /\ input.image.height = BLOCK_SIZE
    /\ input.image.marks = 3
    /\ output.y = BLOCK_SIZE - 1
    /\ Len(output.T) = 1
    /\ Len(output.T[1]) = 2
    /\ blockOrigin(BLOCK_SIZE \div 2, input.image.width) = 1
    /\ Len(output.binarizedMatrix) = BLOCK_SIZE - 1

C29_LookupsInsideImage ==
    pc \in {"extract", "content", "returned"} =>
        /\ 0 <= output.lookups.min.x /\ output.lookups.max.x < input.image.width
        /\ 0 <= output.lookups.min.y /\ output.lookups.max.y < input.image.height
        /\ 0 <= output.patterns.bottomRight.x
        /\ output.patterns.bottomRight.x < input.image.width
        /\ 0 <= output.patterns.bottomRight.y
        /\ output.patterns.bottomRight.y < input.image.height

====
